---- MODULE Spec2Model ----
(***************************************************************************)
(* State-machine model of PyTomography's SPECT projectors                  *)
(* (projectors/SPECT/spect_system_matrix.py): the rotate-and-sum system    *)
(* matrix SPECTSystemMatrix and the ray-based SPECTCompleteSystemMatrix.   *)
(*                                                                         *)
(* Tensors are modelled symbolically.  A plane is a record                 *)
(*   [src |-> where the data came from, hist |-> the steps applied to it], *)
(* a step is [op |-> name, t |-> transform (0 = none), idx |-> <<v>>]      *)
(* where <<v>> is the view index handed to the step along with the plane   *)
(* and <<>> stands for "no index".  View indices and subset indices are    *)
(* 0-based as in the source; TLA+ sequences are 1-based, so slot j of a    *)
(* tensor is element j+1 of the sequence that models it.                   *)
(***************************************************************************)
EXTENDS Integers, Sequences, FiniteSets, TLC

\* Bounds of the model
MaxViews == 4
MaxSubsets == 5
MaxParallel == 2
MaxBatch == 2
MaxTransforms == 2
MaxIters == 2
MaxSubIt == 2
MaxSubsetsOSEM == 2
FracBits == 3
MantissaBits == 2
MaxExponent == 5

VARIABLES
    variant,                \* "rotsum" (SPECTSystemMatrix) or "complete" (SPECTCompleteSystemMatrix)
    num_projections,        \* proj_meta.num_projections = proj_meta.shape[0]
    n_parallel,             \* self.n_parallel
    obj2obj_transforms,     \* self.obj2obj_transforms, a list of transform ids
    proj2proj_transforms,   \* self.proj2proj_transforms, a list of transform ids
    subset_indices_array,   \* self.subset_indices_array; [set |-> FALSE, ...] before set_n_subsets
    last_n_subsets,         \* history: argument of the most recent set_n_subsets call (0 = never called)
    prev_n_subsets,         \* history: while ret holds a set_n_subsets call, the argument of the one before it (0 = none)
    ret,                    \* the call the client made last, with what it returned or raised
    likelihood,             \* class of the likelihood built on the system matrix ("none": not built)
    projections,            \* likelihood.projections, the observed projections g
    additive_term,          \* likelihood.additive_term
    scaling_constant,       \* likelihood.scaling_constant (NegativeMSELikelihood)
    projections_predicted,  \* likelihood.projections_predicted; [set |-> FALSE, ...] before compute_gradient
    prior_network,          \* the prior network: its kind and theta, the volume predict() returns
    normalization_factor,   \* what system_matrix.compute_normalization_factor() evaluates to (one voxel)
    em_ratio,               \* the factor by which the EM step of each subset multiplies the estimate
    rho,                    \* DIPRecon.rho
    EM_object_prediction,   \* DIPRecon.EM_algorithm.object_prediction
    object_prediction,      \* DIPRecon.object_prediction; [set |-> FALSE, ...] until line 85 assigns it
    callback,               \* DIPRecon.callback: whether one is held
    pc,                     \* position in DIPRecon.__call__ ("idle": not in a call)
    n_iters,                \* arguments of the __call__ under way
    subit1,
    n_subsets_osem,
    loop_iter,              \* the loop variables _, j, k of __call__
    loop_j,
    loop_k,
    mu,                     \* the locals mu, norm_BP, x, x_network of __call__
    norm_BP,
    x_admm,
    x_network,
    log,                    \* history: the calls __call__ has made so far to its collaborators
    called_before,          \* history: whether a __call__ has completed on the instance
    given,                  \* the arguments (and files) of the function or constructor under study
    returned                \* what it has returned, raised or built so far

vars == <<variant, num_projections, n_parallel, obj2obj_transforms,
          proj2proj_transforms, subset_indices_array, last_n_subsets, prev_n_subsets, ret,
          likelihood, projections, additive_term, scaling_constant, projections_predicted,
          prior_network, normalization_factor, em_ratio, rho, EM_object_prediction,
          object_prediction, callback, pc, n_iters, subit1, n_subsets_osem, loop_iter,
          loop_j, loop_k, mu, norm_BP, x_admm, x_network, log, called_before,
          given, returned>>

config == <<variant, num_projections, n_parallel, obj2obj_transforms, proj2proj_transforms>>

partition == <<subset_indices_array, last_n_subsets, prev_n_subsets>>

\* the call of a function that stands by itself
function_call == <<given, returned>>

likelihood_data == <<likelihood, projections, additive_term, scaling_constant>>

likelihood_state == <<likelihood_data, projections_predicted>>

\* what a DIPRecon is built from, its attributes, and the frame of a __call__
solver_data == <<normalization_factor, em_ratio, rho>>

solver_attributes == <<prior_network, EM_object_prediction, object_prediction, callback>>

call_arguments == <<n_iters, subit1, n_subsets_osem>>

call_locals == <<loop_iter, loop_j, loop_k, mu, norm_BP, x_admm, x_network>>

solver == <<solver_data, solver_attributes, pc, call_arguments, call_locals, log, called_before>>

----------------------------------------------------------------------------
\* Python / torch primitives

Min(a, b) == IF a <= b THEN a ELSE b

\* torch.arange(n)
Arange(n) == [j \in 1..n |-> j - 1]

\* s[i::k] for 0 <= i and k >= 1
StridedSlice(s, i, k) ==
    [j \in 1..((Len(s) - i + k - 1) \div k) |-> s[i + (j - 1) * k + 1]]

\* s[i:i+n] for 0 <= i and n >= 1
Slice(s, i, n) == SubSeq(s, i + 1, Min(i + n, Len(s)))

\* x.repeat(b) of a 1-D tensor: the whole of x, b times over
RECURSIVE Repeat(_, _)
Repeat(x, b) == IF b <= 0 THEN <<>> ELSE x \o Repeat(x, b - 1)

\* the values a call can end in
Ok(v) == [ok |-> TRUE, err |-> "", val |-> v]
Raise(e) == [ok |-> FALSE, err |-> e, val |-> <<>>]

\* a subset_idx argument: None or an int
NoneArg == [none |-> TRUE, i |-> 0]
IntArg(i) == [none |-> FALSE, i |-> i]

\* list[i] of a Python list: negative indices count from the end
PyIndex(list, i) ==
    IF 0 <= i /\ i < Len(list) THEN Ok(list[i + 1])
    ELSE IF i < 0 /\ -i <= Len(list) THEN Ok(list[Len(list) + i + 1])
    ELSE Raise("IndexError")

\* self.subset_indices_array[subset_idx] on an attribute that __init__ had set to no views
SubsetLookup_defaulting(sia, i) ==
    IF ~sia.set THEN Ok(<<>>) ELSE PyIndex(sia.val, i)

\* self.subset_indices_array[subset_idx]
SubsetLookup(sia, i) ==
    IF ~sia.set THEN Raise("AttributeError") ELSE PyIndex(sia.val, i)

----------------------------------------------------------------------------
\* Floating-point numbers of the tensors' dtype, at reduced width.  A finite
\* value is n * 2^-FracBits with |n| = m * 2^e, m < 2^MantissaBits and
\* e <= MaxExponent (e = 0: subnormal); arithmetic rounds the exact result to
\* the nearest such value, ties to the even mantissa, and overflows to inf.

Fin(n) == [cls |-> "fin", n |-> n]
Inf(sign) == [cls |-> "inf", n |-> sign]
NaN == [cls |-> "nan", n |-> 0]

RECURSIVE Pow2(_)
Pow2(e) == IF e <= 0 THEN 1 ELSE 2 * Pow2(e - 1)

Abs(n) == IF n < 0 THEN -n ELSE n

Sign(n) == IF n < 0 THEN -1 ELSE 1

Magnitudes == {m * Pow2(e) : m \in 0..(Pow2(MantissaBits) - 1), e \in 0..MaxExponent}

MaxFinite == (Pow2(MantissaBits) - 1) * Pow2(MaxExponent)

\* the float nearest to sign * num / den (num >= 0, den > 0)
RoundRatio(sign, num, den) ==
    IF 2 * num >= (2 * MaxFinite + Pow2(MaxExponent)) * den THEN Inf(sign)
    ELSE IF num >= MaxFinite * den THEN Fin(sign * MaxFinite)
    ELSE LET lo == CHOOSE r \in Magnitudes :
                     /\ r * den <= num
                     /\ \A q \in Magnitudes : q * den <= num => q <= r
             hi == CHOOSE r \in Magnitudes :
                     /\ r * den > num
                     /\ \A q \in Magnitudes : q * den > num => q >= r
             even(r) == (r \div (hi - lo)) % 2 = 0
         IN  IF 2 * num < (lo + hi) * den THEN Fin(sign * lo)
             ELSE IF 2 * num > (lo + hi) * den THEN Fin(sign * hi)
             ELSE IF even(lo) THEN Fin(sign * lo) ELSE Fin(sign * hi)

FNeg(x) == IF x.cls = "nan" THEN NaN ELSE [cls |-> x.cls, n |-> -x.n]

\* x + y
FAdd(x, y) ==
    IF x.cls = "nan" \/ y.cls = "nan" THEN NaN
    ELSE IF x.cls = "inf" /\ y.cls = "inf" THEN (IF x.n = y.n THEN x ELSE NaN)
    ELSE IF x.cls = "inf" THEN x
    ELSE IF y.cls = "inf" THEN y
    ELSE RoundRatio(Sign(x.n + y.n), Abs(x.n + y.n), 1)

\* x - y
FSub(x, y) == FAdd(x, FNeg(y))

\* x * y
FMul(x, y) ==
    IF x.cls = "nan" \/ y.cls = "nan" THEN NaN
    ELSE IF x.cls = "inf" \/ y.cls = "inf"
         THEN (IF x.n = 0 \/ y.n = 0 THEN NaN ELSE Inf(Sign(x.n) * Sign(y.n)))
    ELSE RoundRatio(Sign(x.n) * Sign(y.n), Abs(x.n) * Abs(y.n), Pow2(FracBits))

\* x / y
FDiv(x, y) ==
    IF x.cls = "nan" \/ y.cls = "nan" THEN NaN
    ELSE IF x.cls = "inf" THEN (IF y.cls = "inf" THEN NaN ELSE Inf(Sign(x.n) * Sign(y.n)))
    ELSE IF y.cls = "inf" THEN Fin(0)
    ELSE IF y.n = 0 THEN (IF x.n = 0 THEN NaN ELSE Inf(Sign(x.n)))
    ELSE RoundRatio(Sign(x.n) * Sign(y.n), Abs(x.n) * Pow2(FracBits), Abs(y.n))

\* torch.sqrt(x): the float nearest to the square root
FSqrt(x) ==
    IF x.cls = "nan" THEN NaN
    ELSE IF x.n < 0 THEN NaN
    ELSE IF x.cls = "inf" THEN x
    ELSE LET t == x.n * Pow2(FracBits)
             lo == CHOOSE r \in Magnitudes :
                     /\ r * r <= t
                     /\ \A q \in Magnitudes : q * q <= t => q <= r
             hi == CHOOSE r \in Magnitudes :
                     /\ r * r >= t
                     /\ \A q \in Magnitudes : q * q >= t => q >= r
         IN  IF 4 * t <= (lo + hi) * (lo + hi) THEN Fin(lo) ELSE Fin(hi)

\* nn.ReLU()(x)
ReLU(x) ==
    IF x.cls = "nan" THEN NaN
    ELSE IF x.n < 0 THEN Fin(0)
    ELSE x

\* the constants 0.5 and 4 of the update, and 0 and 1
Zero == Fin(0)
One == Fin(Pow2(FracBits))
Half == Fin(Pow2(FracBits - 1))
Four == Fin(4 * Pow2(FracBits))

\* x < 0, x >= 0 as torch compares (both false of nan)
IsNegative(x) == x.cls # "nan" /\ x.n < 0
IsNonNegative(x) == x.cls # "nan" /\ x.n >= 0

----------------------------------------------------------------------------
\* SPECTSystemMatrix.set_n_subsets: the value assigned to self.subset_indices_array
set_n_subsets_contiguous(N, n_subsets) ==
    [set |-> TRUE,
     val |-> [i \in 1..n_subsets |->
                Slice(Arange(N), (i - 1) * (N \div n_subsets), N \div n_subsets)]]

set_n_subsets_reversed(N, n_subsets) ==
    [set |-> TRUE,
     val |-> [i \in 1..n_subsets |-> StridedSlice(Arange(N), n_subsets - i, n_subsets)]]

set_n_subsets(N, n_subsets) ==
    [set |-> TRUE,
     val |-> [i \in 1..n_subsets |-> StridedSlice(Arange(N), i - 1, n_subsets)]]

\* SPECTSystemMatrix.get_projection_subset: projections[:, subset_indices_array[subset_idx]]
\* on a tensor with the slots `slots` per batch element; the result names the slots taken
get_projection_subset(sia, slots, i) ==
    LET look == SubsetLookup(sia, i)
    IN  IF ~look.ok THEN look
        ELSE IF \E p \in DOMAIN look.val : look.val[p] >= Len(slots)
             THEN Raise("IndexError")
        ELSE Ok([p \in DOMAIN look.val |-> slots[look.val[p] + 1]])

\* SPECTSystemMatrix.get_weighting_subset: a float, kept as the fraction <<num, den>>
get_weighting_subset_of_count(sia, N, arg) ==
    IF arg.none THEN Ok(<<1, 1>>)
    ELSE LET look == SubsetLookup(sia, arg.i)
         IN  IF ~look.ok THEN look ELSE Ok(<<1, Len(sia.val)>>)

get_weighting_subset(sia, N, arg) ==
    IF arg.none THEN Ok(<<1, 1>>)
    ELSE LET look == SubsetLookup(sia, arg.i)
         IN  IF ~look.ok THEN look ELSE Ok(<<Len(look.val), N>>)

----------------------------------------------------------------------------
\* Symbolic tensors

Step(op, t, idx) == [op |-> op, t |-> t, idx |-> idx]

\* entry p (0-based) of the index list handed over with a stack of planes
IdxAt(list, p) == IF p + 1 \in DOMAIN list THEN <<list[p + 1]>> ELSE <<>>

Source(kind, b, j) == [kind |-> kind, b |-> b, j |-> j]

Plane(src, hist) == [src |-> src, hist |-> hist]

\* the steps of `hist` appended to every plane of a [batch][slot] tensor
Apply(tensor, steps) ==
    [b \in DOMAIN tensor |->
        [s \in DOMAIN tensor[b] |-> Plane(tensor[b][s].src, tensor[b][s].hist \o steps)]]

\* row[i:i+n] = xs
SliceAssign(row, i, n, xs) ==
    [s \in DOMAIN row |-> IF s > i /\ s <= Min(i + n, Len(row)) THEN xs[s - i] ELSE row[s]]

\* list[::-1]
Reversed(list) == [q \in DOMAIN list |-> list[Len(list) + 1 - q]]

----------------------------------------------------------------------------
\* SPECTSystemMatrix.forward

\* for transform in self.obj2obj_transforms: object_i = transform.forward(object_i, angle_indices_i)
obj2obj_forward_steps(o2o, idx) ==
    [q \in DOMAIN o2o |-> Step("obj2obj.forward", o2o[q], idx)]

\* for transform in self.proj2proj_transforms: proj = transform.forward(proj)
proj2proj_forward_steps(p2p) ==
    [q \in DOMAIN p2p |-> Step("proj2proj.forward", p2p[q], <<>>)]

\* plane p (0-based) of object_i in one pass of the loop: object p \div n of
\* repeat_interleave(object, n, 0), padded, rotated, transformed and summed
forward_plane(p, n, angle_indices_i, o2o) ==
    Plane(Source("object", p \div n, 0),
          <<Step("pad_object", 0, <<>>),
            Step("rotation.backward", 0, IdxAt(angle_indices_i, p))>>
          \o obj2obj_forward_steps(o2o, IdxAt(angle_indices_i, p))
          \o <<Step("sum", 0, <<>>)>>)

\* object_i.reshape((object.shape[0], -1, ...)).sum(axis=2) of one pass, as [b][jj]
forward_batch(B, angle_indices_single_batch_i, o2o) ==
    LET n == Len(angle_indices_single_batch_i)
        angle_indices_i == Repeat(angle_indices_single_batch_i, B)
    IN  [b \in 1..B |-> [jj \in 1..n |->
            forward_plane((b - 1) * n + jj - 1, n, angle_indices_i, o2o)]]

\* range(0, stop, step) has no value left at i
range_exhausted_before_partial_step(i, stop, step) == i + step > stop

range_exhausted(i, stop, step) == i >= stop

\* for i in range(0, len(angle_indices), self.n_parallel): ... proj[:,i:i+self.n_parallel] = ...
RECURSIVE forward_loop(_, _, _, _, _, _)
forward_loop(i, proj, angle_indices, B, par, o2o) ==
    IF range_exhausted(i, Len(angle_indices), par) THEN proj
    ELSE LET X == forward_batch(B, Slice(angle_indices, i, par), o2o)
         IN  forward_loop(i + par,
                          [b \in 1..B |-> SliceAssign(proj[b], i, par, X[b])],
                          angle_indices, B, par, o2o)

\* forward(object, subset_idx) for an object tensor of B volumes
SPECTSystemMatrix_forward(sia, N, par, o2o, p2p, B, arg) ==
    LET look == IF arg.none THEN Ok(<<>>) ELSE SubsetLookup(sia, arg.i)
    IN  IF ~look.ok THEN look
        ELSE LET angle_subset == look.val
                 N_angles == IF arg.none THEN N ELSE Len(angle_subset)
                 angle_indices == IF arg.none THEN Arange(N_angles) ELSE angle_subset
                 zeros == [b \in 1..B |-> [s \in 1..N_angles |->
                              Plane(Source("zeros", b - 1, 0), <<>>)]]
                 proj == forward_loop(0, zeros, angle_indices, B, par, o2o)
             IN  Ok(Apply(Apply(proj, proj2proj_forward_steps(p2p)),
                          <<Step("unpad_proj", 0, <<>>)>>))

----------------------------------------------------------------------------
\* SPECTSystemMatrix.backward

\* for transform in self.proj2proj_transforms[::-1]: proj = transform.backward(proj)
proj2proj_backward_steps(p2p) ==
    [q \in DOMAIN p2p |-> Step("proj2proj.backward", Reversed(p2p)[q], <<>>)]

\* for transform in self.obj2obj_transforms[::-1]: object_i = transform.backward(object_i, angle_indices_i)
obj2obj_backward_steps_listorder(o2o, idx) ==
    [q \in DOMAIN o2o |-> Step("obj2obj.backward", o2o[q], idx)]

obj2obj_backward_steps(o2o, idx) ==
    [q \in DOMAIN o2o |-> Step("obj2obj.backward", Reversed(o2o)[q], idx)]

\* plane p (0-based) of object_i (or norm_constant_i) in one pass of the loop.
\* `x` is the plane of the padded, proj2proj-transformed input; `o2o` is the
\* list of object transforms applied to it (norm_constant_i gets none unless
\* return_norm_constant)
backward_plane(x, p, angle_indices_i, o2o) ==
    Plane(x.src,
          x.hist
          \o <<Step("broadcast", 0, <<>>)>>
          \o obj2obj_backward_steps(o2o, IdxAt(angle_indices_i, p))
          \o <<Step("rotation.forward", 0, IdxAt(angle_indices_i, p)),
               Step("accumulate", 0, <<>>)>>)

\* object_i.reshape((object.shape[0], -1, ...)) of one pass, as [b][jj]:
\* the planes are proj[:,i:i+n_parallel].flatten(0,1)
backward_batch(proj, B, i, par, angle_indices, o2o) ==
    LET angle_indices_i == Slice(angle_indices, i, par)
        w == Len(Slice(proj[1], i, par))
        flat(p) == proj[(p \div w) + 1][i + (p % w) + 1]
    IN  [b \in 1..B |-> [jj \in 1..w |->
            backward_plane(flat((b - 1) * w + jj - 1), (b - 1) * w + jj - 1,
                           angle_indices_i, o2o)]]

\* for i in range(0, len(angle_indices), self.n_parallel): ... object += object_i.sum(axis=1)
\* A volume is the sequence of the planes added into it.
RECURSIVE backward_loop(_, _, _, _, _, _, _)
backward_loop(i, object, proj, B, par, angle_indices, o2o) ==
    IF range_exhausted(i, Len(angle_indices), par) THEN object
    ELSE LET X == backward_batch(proj, B, i, par, angle_indices, o2o)
         IN  backward_loop(i + par, [b \in 1..B |-> object[b] \o X[b]],
                           proj, B, par, angle_indices, o2o)

\* a return_norm_constant argument: left out, or a bool
NoFlag == [given |-> FALSE, v |-> FALSE]
Flag(v) == [given |-> TRUE, v |-> v]

\* backward(proj, subset_idx, return_norm_constant) for a tensor proj[b][slot]
\* of sources, B = Len(proj) >= 1
SPECTSystemMatrix_backward(sia, N, par, o2o, p2p, proj_in, arg, flag) ==
    LET look == IF arg.none THEN Ok(<<>>) ELSE SubsetLookup(sia, arg.i)
        B == Len(proj_in)
        return_norm_constant == flag.given /\ flag.v
    IN  IF ~look.ok THEN look
        ELSE LET angle_subset == look.val
                 N_angles == IF arg.none THEN N ELSE Len(angle_subset)
                 angle_indices == IF arg.none THEN Arange(N_angles) ELSE angle_subset
                 pad == <<Step("pad_proj", 0, <<>>)>>
                 proj == [b \in 1..B |-> [s \in DOMAIN proj_in[b] |->
                            Plane(proj_in[b][s], pad \o proj2proj_backward_steps(p2p))]]
                 norm_proj == [b \in 1..B |-> [s \in DOMAIN proj_in[b] |->
                            Plane(Source("ones", b - 1, s - 1),
                                  pad \o (IF return_norm_constant
                                          THEN proj2proj_backward_steps(p2p) ELSE <<>>))]]
                 empty == [b \in 1..B |-> <<>>]
                 unpad == <<Step("unpad_object", 0, <<>>)>>
                 object == Apply(backward_loop(0, empty, proj, B, par, angle_indices, o2o),
                                 unpad)
                 norm_constant ==
                     Apply(backward_loop(0, empty, norm_proj, B, par, angle_indices,
                                         IF return_norm_constant THEN o2o ELSE <<>>),
                           unpad)
             IN  IF return_norm_constant THEN Ok(<<object, norm_constant>>)
                 ELSE Ok(<<object>>)

----------------------------------------------------------------------------
\* SPECTCompleteSystemMatrix (one volume per call: proj is built with batch
\* size 1 and read as proj[0,i]).  The instance is one built with a stored
\* system matrix and a photopeak, so that system_matrix_device exists and the
\* valid-pixel mask has one row per view.

\* the slot that the loop of forward writes for the q-th (0-based) view idx of angle_indices
complete_forward_slot(q, idx) == idx

\* for idx in angle_indices: proj[:,idx,mask[idx]] = einsum('ij,j->i', system_matrix(idx), object)
RECURSIVE complete_forward_loop(_, _, _)
complete_forward_loop(q, proj, angle_indices) ==
    IF ~proj.ok \/ q >= Len(angle_indices) THEN proj
    ELSE LET idx == angle_indices[q + 1]
             slot == complete_forward_slot(q, idx)
             x == Plane(Source("object", 0, 0),
                        <<Step("system_matrix.einsum_ij_j", 0, <<idx>>)>>)
         IN  complete_forward_loop(q + 1,
                IF slot >= Len(proj.val[1]) THEN Raise("IndexError")
                ELSE Ok(<<[proj.val[1] EXCEPT ![slot + 1] = x]>>),
                angle_indices)

SPECTCompleteSystemMatrix_forward(sia, N, arg) ==
    LET look == IF arg.none THEN Ok(<<>>) ELSE SubsetLookup(sia, arg.i)
    IN  IF ~look.ok THEN look
        ELSE LET angle_subset == look.val
                 N_angles == IF arg.none THEN N ELSE Len(angle_subset)
                 angle_indices == IF arg.none THEN Arange(N_angles) ELSE angle_subset
                 zeros == <<[s \in 1..N_angles |-> Plane(Source("zeros", 0, 0), <<>>)]>>
             IN  complete_forward_loop(0, Ok(zeros), angle_indices)

\* for i, idx in enumerate(angle_indices):
\*     object[mask] += einsum('ij,i->j', system_matrix(idx), proj[0,i][mask[idx]])
RECURSIVE complete_backward_loop(_, _, _, _)
complete_backward_loop(i, object, proj, angle_indices) ==
    IF ~object.ok \/ i >= Len(angle_indices) THEN object
    ELSE LET idx == angle_indices[i + 1]
         IN  complete_backward_loop(i + 1,
                IF i >= Len(proj[1]) THEN Raise("IndexError")
                ELSE Ok(<<object.val[1] \o
                          <<Plane(proj[1][i + 1],
                                  <<Step("system_matrix.einsum_ij_i", 0, <<idx>>)>>)>> >>),
                proj, angle_indices)

\* backward(proj, subset_idx) takes no return_norm_constant
SPECTCompleteSystemMatrix_backward(sia, N, proj_in, arg, flag) ==
    LET look == IF arg.none THEN Ok(<<>>) ELSE SubsetLookup(sia, arg.i)
    IN  IF flag.given THEN Raise("TypeError")
        ELSE IF ~look.ok THEN look
        ELSE LET angle_subset == look.val
                 N_angles == IF arg.none THEN N ELSE Len(angle_subset)
                 angle_indices == IF arg.none THEN Arange(N_angles) ELSE angle_subset
                 object == complete_backward_loop(0, Ok(<< <<>> >>), proj_in, angle_indices)
             IN  IF object.ok THEN Ok(<<object.val>>) ELSE object

----------------------------------------------------------------------------
\* Dispatch on the class of the instance

forward(v, sia, N, par, o2o, p2p, B, arg) ==
    IF v = "rotsum" THEN SPECTSystemMatrix_forward(sia, N, par, o2o, p2p, B, arg)
    ELSE SPECTCompleteSystemMatrix_forward(sia, N, arg)

backward(v, sia, N, par, o2o, p2p, proj_in, arg, flag) ==
    IF v = "rotsum" THEN SPECTSystemMatrix_backward(sia, N, par, o2o, p2p, proj_in, arg, flag)
    ELSE SPECTCompleteSystemMatrix_backward(sia, N, proj_in, arg, flag)

\* SPECTSystemMatrix.compute_normalization_factor (inherited by the ray-based class)
compute_normalization_factor_unrestricted(v, sia, N, par, o2o, p2p, arg) ==
    LET ones == [s \in 1..N |-> Source("ones", 0, s - 1)]
    IN  backward(v, sia, N, par, o2o, p2p, <<ones>>, arg, NoFlag)

compute_normalization_factor(v, sia, N, par, o2o, p2p, arg) ==
    LET ones == [s \in 1..N |-> Source("ones", 0, s - 1)]
        look == IF arg.none THEN Ok(<<>>) ELSE SubsetLookup(sia, arg.i)
    IN  IF ~look.ok THEN look
        ELSE LET norm_proj ==
                    IF arg.none THEN <<ones>>
                    ELSE <<[q \in DOMAIN look.val |-> ones[look.val[q] + 1]]>>
             IN  backward(v, sia, N, par, o2o, p2p, norm_proj, arg, NoFlag)

----------------------------------------------------------------------------
\* The state machine: one system matrix and the client that calls it

Variants == {"rotsum", "complete"}

\* lists of 0..MaxTransforms transforms, identified by their position
TransformLists == {[q \in 1..n |-> q] : n \in 0..MaxTransforms}

SubsetArgs == {NoneArg} \cup {IntArg(i) : i \in -1..MaxSubsets}

Flags == {NoFlag, Flag(TRUE), Flag(FALSE)}

Call(op, arg, B, flag, res) == [op |-> op, arg |-> arg, B |-> B, flag |-> flag, res |-> res]

Idle == Call("idle", NoneArg, 0, NoFlag, Ok(<<>>))

\* number of views that forward/backward use for subset_idx = arg
\* (the view count of a projection tensor of compatible shape)
ViewCount(sia, N, arg) ==
    IF arg.none \/ ~SubsetLookup(sia, arg.i).ok THEN N
    ELSE Len(SubsetLookup(sia, arg.i).val)

\* a projection tensor [b][slot] handed in by the client
ProjInput(B, S) == [b \in 1..B |-> [s \in 1..S |-> Source("proj", b - 1, s - 1)]]

\* no DIPRecon has been built
NoSolver ==
    /\ prior_network = [kind |-> "none", theta |-> Zero]
    /\ normalization_factor = Zero
    /\ em_ratio = <<>>
    /\ rho = Zero
    /\ EM_object_prediction = Zero
    /\ object_prediction = [set |-> FALSE, val |-> Zero]
    /\ callback = FALSE
    /\ pc = "idle"
    /\ n_iters = 0
    /\ subit1 = 0
    /\ n_subsets_osem = 0
    /\ loop_iter = 0
    /\ loop_j = 0
    /\ loop_k = 0
    /\ mu = Zero
    /\ norm_BP = Zero
    /\ x_admm = Zero
    /\ x_network = Zero
    /\ log = <<>>
    /\ called_before = FALSE

\* no function has been called
NotCalled == [stage |-> "none"]

NoFunctionCall ==
    /\ given = <<>>
    /\ returned = NotCalled

\* no likelihood has been built on the system matrix
NoLikelihood ==
    /\ likelihood = "none"
    /\ projections = <<>>
    /\ additive_term = <<>>
    /\ scaling_constant = 1
    /\ projections_predicted = [set |-> FALSE, val |-> <<>>]

\* __init__: subset_indices_array is not assigned; the ray-based class passes
\* empty transform lists to its base
Init ==
    /\ variant \in Variants
    /\ num_projections \in 1..MaxViews
    /\ n_parallel \in 1..MaxParallel
    /\ obj2obj_transforms \in (IF variant = "rotsum" THEN TransformLists ELSE {<<>>})
    /\ proj2proj_transforms \in (IF variant = "rotsum" THEN TransformLists ELSE {<<>>})
    /\ subset_indices_array = [set |-> FALSE, val |-> <<>>]
    /\ last_n_subsets = 0
    /\ prev_n_subsets = 0
    /\ ret = Idle
    /\ NoFunctionCall
    /\ NoLikelihood
    /\ NoSolver

\* set_n_subsets with the appends made to the attribute itself, no fresh list
SetNSubsets_extending ==
    /\ ret.op = "idle"
    /\ \E k \in 1..MaxSubsets :
        /\ subset_indices_array' =
              [set |-> TRUE,
               val |-> subset_indices_array.val \o set_n_subsets(num_projections, k).val]
        /\ last_n_subsets' = k
        /\ prev_n_subsets' = last_n_subsets
        /\ ret' = Call("set_n_subsets", IntArg(k), 0, NoFlag, Ok(<<>>))
    /\ UNCHANGED <<function_call, config, likelihood_state, solver>>

SetNSubsets ==
    /\ ret.op = "idle"
    /\ \E k \in 1..MaxSubsets :
        /\ subset_indices_array' = set_n_subsets(num_projections, k)
        /\ last_n_subsets' = k
        /\ prev_n_subsets' = last_n_subsets
        /\ ret' = Call("set_n_subsets", IntArg(k), 0, NoFlag, Ok(<<>>))
    /\ UNCHANGED <<function_call, config, likelihood_state, solver>>

Forward ==
    /\ ret.op = "idle"
    /\ \E arg \in SubsetArgs, B \in 1..MaxBatch :
        /\ variant = "complete" => B = 1
        /\ ret' = Call("forward", arg, B, NoFlag,
                       forward(variant, subset_indices_array, num_projections, n_parallel,
                               obj2obj_transforms, proj2proj_transforms, B, arg))
    /\ UNCHANGED <<function_call, config, partition, likelihood_state, solver>>

Backward ==
    /\ ret.op = "idle"
    /\ \E arg \in SubsetArgs, B \in 1..MaxBatch, flag \in Flags :
        /\ variant = "complete" => B = 1
        /\ ret' = Call("backward", arg, B, flag,
                       backward(variant, subset_indices_array, num_projections, n_parallel,
                                obj2obj_transforms, proj2proj_transforms,
                                ProjInput(B, ViewCount(subset_indices_array,
                                                       num_projections, arg)),
                                arg, flag))
    /\ UNCHANGED <<function_call, config, partition, likelihood_state, solver>>

ComputeNormalizationFactor ==
    /\ ret.op = "idle"
    /\ \E arg \in SubsetArgs :
        ret' = Call("compute_normalization_factor", arg, 1, NoFlag,
                    compute_normalization_factor(variant, subset_indices_array,
                        num_projections, n_parallel, obj2obj_transforms,
                        proj2proj_transforms, arg))
    /\ UNCHANGED <<function_call, config, partition, likelihood_state, solver>>

GetProjectionSubset ==
    /\ ret.op = "idle"
    /\ \E arg \in SubsetArgs \ {NoneArg} :
        ret' = Call("get_projection_subset", arg, 1, NoFlag,
                    get_projection_subset(subset_indices_array,
                        ProjInput(1, num_projections)[1], arg.i))
    /\ UNCHANGED <<function_call, config, partition, likelihood_state, solver>>

GetWeightingSubset ==
    /\ ret.op = "idle"
    /\ \E arg \in SubsetArgs :
        ret' = Call("get_weighting_subset", arg, 0, NoFlag,
                    get_weighting_subset(subset_indices_array, num_projections, arg))
    /\ UNCHANGED <<function_call, config, partition, likelihood_state, solver>>

\* the client drops what the last call returned and goes on
Release ==
    /\ ret.op # "idle"
    /\ ret' = Idle
    /\ prev_n_subsets' = 0
    /\ UNCHANGED <<function_call, config, subset_indices_array, last_n_subsets, likelihood_state, solver>>

Next ==
    \/ SetNSubsets
    \/ Forward
    \/ Backward
    \/ ComputeNormalizationFactor
    \/ GetProjectionSubset
    \/ GetWeightingSubset
    \/ Release

Spec == Init /\ [][Next]_vars

----------------------------------------------------------------------------
\* The likelihoods of likelihoods/mse_objective.py, built on the system matrix

\* element-wise X op Y of two tensors [b][slot] of equal shape
Elementwise(op, X, Y) ==
    [b \in DOMAIN X |-> [s \in DOMAIN X[b] |->
        [kind |-> op, left |-> X[b][s], right |-> Y[b][s]]]]

SameShape(X, Y) ==
    /\ DOMAIN X = DOMAIN Y
    /\ \A b \in DOMAIN X : DOMAIN X[b] = DOMAIN Y[b]

\* the tensor every entry of which is the scalar `kind`
Scalar(kind, X) ==
    [b \in DOMAIN X |-> [s \in DOMAIN X[b] |-> Source(kind, 0, 0)]]

\* forward applied to the object `kind` (object*0+1 is "ones_object") in place of object
ForwardOf(kind, F) ==
    [b \in DOMAIN F |-> [s \in DOMAIN F[b] |->
        IF F[b][s].src.kind = "object"
        THEN Plane(Source(kind, F[b][s].src.b, F[b][s].src.j), F[b][s].hist)
        ELSE F[b][s]]]

\* Likelihood._get_projection_subset: the whole tensor for None, else the
\* system matrix's get_projection_subset
Likelihood_get_projection_subset(sia, tensor, arg) ==
    IF arg.none THEN Ok(tensor)
    ELSE LET rows == [b \in DOMAIN tensor |-> get_projection_subset(sia, tensor[b], arg.i)]
         IN  IF ~rows[1].ok THEN rows[1]
             ELSE Ok([b \in DOMAIN tensor |-> rows[b].val])

\* what a compute_gradient call leaves behind: its outcome and the cache
Outcome(res, cache) == [res |-> res, projections_predicted |-> cache]

Cached(val) == [set |-> TRUE, val |-> val]

\* values passed as norm_BP_subset_method: the default, the other documented
\* choice, and a string that is neither
SubsetMethods == {"subset_specific", "average_of_subsets", "neither"}

\* NegativeMSELikelihood.compute_gradient(object, subset_idx, norm_BP_subset_method)
NegativeMSELikelihood_compute_gradient_whole_additive(v, sia, N, par, o2o, p2p, g, additive, scaling, cached, arg, norm_BP_subset_method) ==
    LET proj_subset == Likelihood_get_projection_subset(sia, g, arg)
        F == forward(v, sia, N, par, o2o, p2p, Len(g), arg)
    IN  IF ~proj_subset.ok THEN Outcome(proj_subset, cached)
        ELSE IF ~F.ok THEN Outcome(F, cached)
        ELSE LET whole == [b \in DOMAIN F.val |-> SubSeq(additive[b], 1, Len(F.val[b]))]
                 predicted == Elementwise("add", F.val, whole)
                 Bk == backward(v, sia, N, par, o2o, p2p,
                                Elementwise("sub", proj_subset.val, predicted), arg, NoFlag)
             IN  IF ~Bk.ok THEN Outcome(Bk, Cached(predicted))
                 ELSE Outcome(Ok(<<Apply(Bk.val[1], <<Step("mul", scaling, <<>>)>>)>>),
                              Cached(predicted))

NegativeMSELikelihood_compute_gradient(v, sia, N, par, o2o, p2p, g, additive, scaling, cached, arg, norm_BP_subset_method) ==
    LET proj_subset == Likelihood_get_projection_subset(sia, g, arg)
        additive_term_subset == Likelihood_get_projection_subset(sia, additive, arg)
        F == forward(v, sia, N, par, o2o, p2p, Len(g), arg)
    IN  IF ~proj_subset.ok THEN Outcome(proj_subset, cached)
        ELSE IF ~additive_term_subset.ok THEN Outcome(additive_term_subset, cached)
        ELSE IF ~F.ok THEN Outcome(F, cached)
        ELSE IF ~SameShape(F.val, additive_term_subset.val)
             THEN Outcome(Raise("RuntimeError"), cached)
        ELSE LET predicted == Elementwise("add", F.val, additive_term_subset.val)
                 Bk == backward(v, sia, N, par, o2o, p2p,
                                Elementwise("sub", proj_subset.val, predicted), arg, NoFlag)
             IN  IF ~Bk.ok THEN Outcome(Bk, Cached(predicted))
                 ELSE Outcome(Ok(<<Apply(Bk.val[1], <<Step("mul", scaling, <<>>)>>)>>),
                              Cached(predicted))

\* compute_gradient that rescales the result by the relative subset size when
\* norm_BP_subset_method is 'average_of_subsets'
SARTWeightedNegativeMSELikelihood_compute_gradient_averaged(v, sia, N, par, o2o, p2p, g, additive, cached, arg, norm_BP_subset_method) ==
    LET proj_subset == Likelihood_get_projection_subset(sia, g, arg)
        additive_term_subset == Likelihood_get_projection_subset(sia, additive, arg)
        F == forward(v, sia, N, par, o2o, p2p, Len(g), arg)
    IN  IF ~proj_subset.ok THEN Outcome(proj_subset, cached)
        ELSE IF ~additive_term_subset.ok THEN Outcome(additive_term_subset, cached)
        ELSE IF ~F.ok THEN Outcome(F, cached)
        ELSE IF ~SameShape(F.val, additive_term_subset.val)
             THEN Outcome(Raise("RuntimeError"), cached)
        ELSE LET predicted == Elementwise("add", F.val, additive_term_subset.val)
                 norm_FP == ForwardOf("ones_object", F.val)
                 Bk == backward(v, sia, N, par, o2o, p2p,
                                Elementwise("div",
                                    Elementwise("sub", proj_subset.val, predicted),
                                    Elementwise("add", norm_FP, Scalar("delta", norm_FP))),
                                arg, NoFlag)
             IN  IF ~Bk.ok THEN Outcome(Bk, Cached(predicted))
                 ELSE IF norm_BP_subset_method = "average_of_subsets"
                 THEN Outcome(Ok(<<Apply(Bk.val[1],
                                         <<Step("mul", "subset_weight", <<>>)>>)>>),
                              Cached(predicted))
                 ELSE Outcome(Ok(<<Bk.val[1]>>), Cached(predicted))

\* SARTWeightedNegativeMSELikelihood.compute_gradient(object, subset_idx,
\* norm_BP_subset_method)
SARTWeightedNegativeMSELikelihood_compute_gradient(v, sia, N, par, o2o, p2p, g, additive, cached, arg, norm_BP_subset_method) ==
    LET proj_subset == Likelihood_get_projection_subset(sia, g, arg)
        additive_term_subset == Likelihood_get_projection_subset(sia, additive, arg)
        F == forward(v, sia, N, par, o2o, p2p, Len(g), arg)
    IN  IF ~proj_subset.ok THEN Outcome(proj_subset, cached)
        ELSE IF ~additive_term_subset.ok THEN Outcome(additive_term_subset, cached)
        ELSE IF ~F.ok THEN Outcome(F, cached)
        ELSE IF ~SameShape(F.val, additive_term_subset.val)
             THEN Outcome(Raise("RuntimeError"), cached)
        ELSE LET predicted == Elementwise("add", F.val, additive_term_subset.val)
                 norm_FP == ForwardOf("ones_object", F.val)
                 Bk == backward(v, sia, N, par, o2o, p2p,
                                Elementwise("div",
                                    Elementwise("sub", proj_subset.val, predicted),
                                    Elementwise("add", norm_FP, Scalar("delta", norm_FP))),
                                arg, NoFlag)
             IN  IF ~Bk.ok THEN Outcome(Bk, Cached(predicted))
                 ELSE Outcome(Ok(<<Bk.val[1]>>), Cached(predicted))

LikelihoodClasses == {"NegativeMSELikelihood", "SARTWeightedNegativeMSELikelihood"}

\* scaling_constant is a float; the model tells two values apart
ScalingConstants == {1, 2}

\* a tensor of the shape of the projections, [b][view]
DataTensor(kind, B, N) == [b \in 1..B |-> [s \in 1..N |-> Source(kind, b - 1, s - 1)]]

\* a system matrix, used before or after set_n_subsets, and a likelihood built
\* on it from observed projections and an additive term of B batch elements
InitLikelihood ==
    /\ variant \in Variants
    /\ num_projections \in 1..MaxViews
    /\ n_parallel \in 1..MaxParallel
    /\ obj2obj_transforms = (IF variant = "rotsum" THEN [q \in 1..MaxTransforms |-> q] ELSE <<>>)
    /\ proj2proj_transforms = (IF variant = "rotsum" THEN [q \in 1..MaxTransforms |-> q] ELSE <<>>)
    /\ \E k \in 0..MaxSubsets :
        /\ subset_indices_array = (IF k = 0 THEN [set |-> FALSE, val |-> <<>>]
                                   ELSE set_n_subsets(num_projections, k))
        /\ last_n_subsets = k
    /\ prev_n_subsets = 0
    /\ ret = Idle
    /\ NoFunctionCall
    /\ likelihood \in LikelihoodClasses
    /\ \E B \in 1..MaxBatch :
        /\ variant = "complete" => B = 1
        /\ projections = DataTensor("proj", B, num_projections)
        /\ additive_term = DataTensor("additive", B, num_projections)
    /\ scaling_constant \in (IF likelihood = "NegativeMSELikelihood" THEN ScalingConstants ELSE {1})
    /\ projections_predicted = [set |-> FALSE, val |-> <<>>]
    /\ NoSolver

\* compute_gradient with the residual formed in place (proj_subset -= ...):
\* for subset_idx = None proj_subset is self.projections itself
ComputeGradient_inplace ==
    /\ ret.op = "idle"
    /\ likelihood = "NegativeMSELikelihood"
    /\ \E arg \in SubsetArgs, norm_BP_subset_method \in SubsetMethods :
        LET out == NegativeMSELikelihood_compute_gradient(variant, subset_indices_array,
                       num_projections, n_parallel, obj2obj_transforms,
                       proj2proj_transforms, projections, additive_term,
                       scaling_constant, projections_predicted, arg,
                       norm_BP_subset_method)
        IN  /\ ret' = Call("compute_gradient", arg, Len(projections), NoFlag, out.res)
            /\ projections_predicted' = out.projections_predicted
            /\ projections' = IF arg.none /\ out.res.ok
                               THEN Elementwise("sub", projections,
                                                out.projections_predicted.val)
                               ELSE projections
    /\ UNCHANGED <<function_call, config, partition, likelihood, additive_term, scaling_constant, solver>>

ComputeGradient ==
    /\ ret.op = "idle"
    /\ likelihood = "NegativeMSELikelihood"
    /\ \E arg \in SubsetArgs, norm_BP_subset_method \in SubsetMethods :
        LET out == NegativeMSELikelihood_compute_gradient(variant, subset_indices_array,
                       num_projections, n_parallel, obj2obj_transforms,
                       proj2proj_transforms, projections, additive_term,
                       scaling_constant, projections_predicted, arg,
                       norm_BP_subset_method)
        IN  /\ ret' = Call("compute_gradient", arg, Len(projections), NoFlag, out.res)
            /\ projections_predicted' = out.projections_predicted
    /\ UNCHANGED <<function_call, config, partition, likelihood_data, solver>>

ComputeGradientSART ==
    /\ ret.op = "idle"
    /\ likelihood = "SARTWeightedNegativeMSELikelihood"
    /\ \E arg \in SubsetArgs, norm_BP_subset_method \in SubsetMethods :
        LET out == SARTWeightedNegativeMSELikelihood_compute_gradient(variant,
                       subset_indices_array, num_projections, n_parallel,
                       obj2obj_transforms, proj2proj_transforms, projections,
                       additive_term, projections_predicted, arg,
                       norm_BP_subset_method)
        IN  /\ ret' = Call("compute_gradient", arg, Len(projections), NoFlag, out.res)
            /\ projections_predicted' = out.projections_predicted
    /\ UNCHANGED <<function_call, config, partition, likelihood_data, solver>>

NextLikelihood ==
    \/ ComputeGradient
    \/ ComputeGradientSART
    \/ Release

SpecLikelihood == InitLikelihood /\ [][NextLikelihood]_vars

----------------------------------------------------------------------------
\* DIPRecon (algorithms/dip_recon.py) on a volume of one voxel

\* line 81: the inner update of x
InnerUpdate_minus_root(xn, m, c, r, xem) ==
    LET a == FSub(FSub(xn, m), FDiv(c, r))
    IN  FSub(FMul(Half, a),
             FMul(Half, FSqrt(FAdd(FMul(a, a), FDiv(FMul(FMul(Four, xem), c), r)))))

InnerUpdate(xn, m, c, r, xem) ==
    LET a == FSub(FSub(xn, m), FDiv(c, r))
    IN  FAdd(FMul(Half, a),
             FMul(Half, FSqrt(FAdd(FMul(a, a), FDiv(FMul(FMul(Four, xem), c), r)))))

\* the EM sub-solver called with n_iters = 1 and n_subset_specific = subset: one
\* multiplicative step of that subset on its object_prediction
EM_algorithm(object, subset) == FMul(object, em_ratio[subset + 1])

\* prior_network.fit(target) and prior_network.predict()
NetworkKinds == {"identity", "halving"}

fit(network, target) ==
    IF network.kind = "identity" THEN [network EXCEPT !.theta = target]
    ELSE [network EXCEPT !.theta = FMul(Half, target)]

predict(network) == network.theta

\* an entry of the log
Event(ev, em_iters, em_subsets, subset, iter, val, aux) ==
    [ev |-> ev, n_iters |-> em_iters, n_subsets |-> em_subsets, subset |-> subset,
     iter |-> iter, val |-> val, aux |-> aux]

\* where __call__ goes on when an outer iteration is to begin (or none is left)
OuterEntry(iter, n, s) ==
    IF iter >= n THEN "return" ELSE IF s = 0 THEN "fit" ELSE "em"

Two == FAdd(One, One)

InitialPredictions == {FNeg(One), One}

Ratios == {One, Two}

\* the EM factors of the subsets: the same for every subset, or alternating
EMTables ==
    {[q \in 1..MaxSubsetsOSEM |-> r] : r \in Ratios}
    \cup {[q \in 1..MaxSubsetsOSEM |-> IF q % 2 = 1 THEN Two ELSE Half]}

\* __init__: the EM sub-solver starts from the rectified prediction of the
\* network; object_prediction of the DIPRecon is not assigned
InitDIP ==
    /\ variant = "rotsum"
    /\ num_projections = 1
    /\ n_parallel = 1
    /\ obj2obj_transforms = <<>>
    /\ proj2proj_transforms = <<>>
    /\ subset_indices_array = [set |-> FALSE, val |-> <<>>]
    /\ last_n_subsets = 0
    /\ prev_n_subsets = 0
    /\ ret = Idle
    /\ NoFunctionCall
    /\ NoLikelihood
    /\ prior_network \in [kind : NetworkKinds, theta : InitialPredictions]
    /\ normalization_factor = One
    /\ em_ratio \in EMTables
    /\ rho = One
    /\ EM_object_prediction = ReLU(predict(prior_network))
    /\ object_prediction = [set |-> FALSE, val |-> Zero]
    /\ callback = FALSE
    /\ pc = "idle"
    /\ n_iters = 0
    /\ subit1 = 0
    /\ n_subsets_osem = 0
    /\ loop_iter = 0
    /\ loop_j = 0
    /\ loop_k = 0
    /\ mu = Zero
    /\ norm_BP = Zero
    /\ x_admm = Zero
    /\ x_network = Zero
    /\ log = <<>>
    /\ called_before = FALSE

\* lines 70-75 with x started from the estimate the EM sub-solver holds
DIPStart_from_sub_solver ==
    /\ pc = "idle"
    /\ ret.op = "idle"
    /\ \E n \in 0..MaxIters, s \in 0..MaxSubIt, m \in 1..MaxSubsetsOSEM, cb \in BOOLEAN :
        /\ n_iters' = n
        /\ subit1' = s
        /\ n_subsets_osem' = m
        /\ callback' = cb
        /\ pc' = OuterEntry(0, n, s)
    /\ mu' = Zero
    /\ norm_BP' = normalization_factor
    /\ x_admm' = EM_object_prediction
    /\ x_network' = predict(prior_network)
    /\ loop_iter' = 0
    /\ loop_j' = 0
    /\ loop_k' = 0
    /\ log' = <<Event("compute_normalization_factor", 0, 0, NoneArg, 0,
                      normalization_factor, Zero),
                Event("predict", 0, 0, NoneArg, 0, predict(prior_network), Zero)>>
    /\ UNCHANGED <<function_call, config, partition, likelihood_state, solver_data, prior_network,
                   EM_object_prediction, object_prediction, called_before, ret>>

\* lines 70-75 with x started from zeros, not from the network's prediction
DIPStart_from_zero ==
    /\ pc = "idle"
    /\ ret.op = "idle"
    /\ \E n \in 0..MaxIters, s \in 0..MaxSubIt, m \in 1..MaxSubsetsOSEM, cb \in BOOLEAN :
        /\ n_iters' = n
        /\ subit1' = s
        /\ n_subsets_osem' = m
        /\ callback' = cb
        /\ pc' = OuterEntry(0, n, s)
    /\ mu' = Zero
    /\ norm_BP' = normalization_factor
    /\ x_admm' = Zero
    /\ x_network' = predict(prior_network)
    /\ loop_iter' = 0
    /\ loop_j' = 0
    /\ loop_k' = 0
    /\ log' = <<Event("compute_normalization_factor", 0, 0, NoneArg, 0,
                      normalization_factor, Zero),
                Event("predict", 0, 0, NoneArg, 0, predict(prior_network), Zero)>>
    /\ UNCHANGED <<function_call, config, partition, likelihood_state, solver_data, prior_network,
                   EM_object_prediction, object_prediction, called_before, ret>>

\* lines 70-75
DIPStart ==
    /\ pc = "idle"
    /\ ret.op = "idle"
    /\ \E n \in 0..MaxIters, s \in 0..MaxSubIt, m \in 1..MaxSubsetsOSEM, cb \in BOOLEAN :
        /\ n_iters' = n
        /\ subit1' = s
        /\ n_subsets_osem' = m
        /\ callback' = cb
        /\ pc' = OuterEntry(0, n, s)
    /\ mu' = Zero
    /\ norm_BP' = normalization_factor
    /\ x_admm' = predict(prior_network)
    /\ x_network' = predict(prior_network)
    /\ loop_iter' = 0
    /\ loop_j' = 0
    /\ loop_k' = 0
    /\ log' = <<Event("compute_normalization_factor", 0, 0, NoneArg, 0,
                      normalization_factor, Zero),
                Event("predict", 0, 0, NoneArg, 0, predict(prior_network), Zero)>>
    /\ UNCHANGED <<function_call, config, partition, likelihood_state, solver_data, prior_network,
                   EM_object_prediction, object_prediction, called_before, ret>>

\* line 79 with nn.ReLU(inplace=True)(x): the estimate is x's own tensor
Reseed_inplace(x_current) == [val |-> ReLU(x_current), shares_x |-> TRUE]

\* line 79, nn.ReLU()(x.clone()): the tensor assigned to the sub-solver's
\* object_prediction, and whether it shares its storage with x
Reseed(x_current) == [val |-> ReLU(x_current), shares_x |-> FALSE]

\* lines 79-80; the sub-solver may write its step into the tensor it holds,
\* which changes x if x is that tensor
DIPEMStep ==
    /\ pc = "em"
    /\ LET seed == Reseed(x_admm)
           x_EM == EM_algorithm(seed.val, loop_k)
       IN  /\ EM_object_prediction' = x_EM
           /\ x_admm' = IF seed.shares_x THEN x_EM ELSE x_admm
           /\ log' = Append(log, Event("EM", 1, n_subsets_osem, IntArg(loop_k),
                                       loop_iter, x_EM, seed.val))
    /\ pc' = "update"
    /\ UNCHANGED <<function_call, config, partition, likelihood_state, solver_data, prior_network,
                   object_prediction, callback, call_arguments, loop_iter, loop_j,
                   loop_k, mu, norm_BP, x_network, called_before, ret>>

\* line 81 with the normalization factor divided among the subsets
DIPInnerUpdate_subset_share ==
    /\ pc = "update"
    /\ x_admm' = InnerUpdate(x_network, mu, IF n_subsets_osem = 1 THEN norm_BP
                                             ELSE FMul(Half, norm_BP),
                             rho, EM_object_prediction)
    /\ log' = Append(log, Event("update", 0, 0, IntArg(loop_k), loop_iter,
                                InnerUpdate(x_network, mu,
                                            IF n_subsets_osem = 1 THEN norm_BP
                                            ELSE FMul(Half, norm_BP),
                                            rho, EM_object_prediction), mu))
    /\ IF loop_k + 1 < n_subsets_osem
       THEN /\ loop_k' = loop_k + 1
            /\ loop_j' = loop_j
            /\ pc' = "em"
       ELSE IF loop_j + 1 < subit1
       THEN /\ loop_k' = 0
            /\ loop_j' = loop_j + 1
            /\ pc' = "em"
       ELSE /\ loop_k' = loop_k
            /\ loop_j' = loop_j
            /\ pc' = "fit"
    /\ UNCHANGED <<function_call, config, partition, likelihood_state, solver_data, solver_attributes,
                   call_arguments, loop_iter, mu, norm_BP, x_network, called_before, ret>>

\* line 81, and the step of the two inner loops
DIPInnerUpdate ==
    /\ pc = "update"
    /\ x_admm' = InnerUpdate(x_network, mu, norm_BP, rho, EM_object_prediction)
    /\ log' = Append(log, Event("update", 0, 0, IntArg(loop_k), loop_iter,
                                InnerUpdate(x_network, mu, norm_BP, rho,
                                            EM_object_prediction), mu))
    /\ IF loop_k + 1 < n_subsets_osem
       THEN /\ loop_k' = loop_k + 1
            /\ loop_j' = loop_j
            /\ pc' = "em"
       ELSE IF loop_j + 1 < subit1
       THEN /\ loop_k' = 0
            /\ loop_j' = loop_j + 1
            /\ pc' = "em"
       ELSE /\ loop_k' = loop_k
            /\ loop_j' = loop_j
            /\ pc' = "fit"
    /\ UNCHANGED <<function_call, config, partition, likelihood_state, solver_data, solver_attributes,
                   call_arguments, loop_iter, mu, norm_BP, x_network, called_before, ret>>

\* line 82 with the network fitted to x alone
DIPFit_without_dual ==
    /\ pc = "fit"
    /\ prior_network' = fit(prior_network, x_admm)
    /\ log' = Append(log, Event("fit", 0, 0, NoneArg, loop_iter, x_admm, mu))
    /\ pc' = "predict"
    /\ UNCHANGED <<function_call, config, partition, likelihood_state, solver_data, EM_object_prediction,
                   object_prediction, callback, call_arguments, call_locals,
                   called_before, ret>>

\* line 82
DIPFit ==
    /\ pc = "fit"
    /\ prior_network' = fit(prior_network, FAdd(x_admm, mu))
    /\ log' = Append(log, Event("fit", 0, 0, NoneArg, loop_iter, FAdd(x_admm, mu), mu))
    /\ pc' = "predict"
    /\ UNCHANGED <<function_call, config, partition, likelihood_state, solver_data, EM_object_prediction,
                   object_prediction, callback, call_arguments, call_locals,
                   called_before, ret>>

\* line 83
DIPPredict ==
    /\ pc = "predict"
    /\ x_network' = predict(prior_network)
    /\ log' = Append(log, Event("predict", 0, 0, NoneArg, loop_iter,
                                predict(prior_network), Zero))
    /\ pc' = "dual"
    /\ UNCHANGED <<function_call, config, partition, likelihood_state, solver_data, solver_attributes,
                   call_arguments, loop_iter, loop_j, loop_k, mu, norm_BP, x_admm,
                   called_before, ret>>

\* lines 84-85
DIPDualUpdate ==
    /\ pc = "dual"
    /\ mu' = FAdd(mu, FSub(x_admm, x_network))
    /\ object_prediction' = [set |-> TRUE, val |-> ReLU(x_network)]
    /\ log' = Append(log, Event("dual", 0, 0, NoneArg, loop_iter,
                                FAdd(mu, FSub(x_admm, x_network)), x_network))
    /\ pc' = "callback"
    /\ UNCHANGED <<function_call, config, partition, likelihood_state, solver_data, prior_network,
                   EM_object_prediction, callback, call_arguments, loop_iter, loop_j,
                   loop_k, norm_BP, x_admm, x_network, called_before, ret>>

\* lines 87-88 (and 44-51), and the step of the outer loop
DIPCallback ==
    /\ pc = "callback"
    /\ log' = IF callback
              THEN Append(log, Event("callback", 0, 0, NoneArg, loop_iter,
                                     object_prediction.val, Zero))
              ELSE log
    /\ loop_iter' = loop_iter + 1
    /\ loop_j' = 0
    /\ loop_k' = 0
    /\ pc' = OuterEntry(loop_iter + 1, n_iters, subit1)
    /\ UNCHANGED <<function_call, config, partition, likelihood_state, solver_data, solver_attributes,
                   call_arguments, mu, norm_BP, x_admm, x_network, called_before, ret>>

\* line 89: return self.object_prediction; the frame of the call is gone
DIPReturn ==
    /\ pc = "return"
    /\ ret' = Call("DIPRecon.__call__", NoneArg, 1, NoFlag,
                   IF object_prediction.set THEN Ok(<<object_prediction.val>>)
                   ELSE Raise("AttributeError"))
    /\ pc' = "idle"
    /\ called_before' = TRUE
    /\ n_iters' = 0
    /\ subit1' = 0
    /\ n_subsets_osem' = 0
    /\ loop_iter' = 0
    /\ loop_j' = 0
    /\ loop_k' = 0
    /\ mu' = Zero
    /\ norm_BP' = Zero
    /\ x_admm' = Zero
    /\ x_network' = Zero
    /\ log' = <<>>
    /\ UNCHANGED <<function_call, config, partition, likelihood_state, solver_data, solver_attributes>>

NextDIP ==
    \/ DIPStart
    \/ DIPEMStep
    \/ DIPInnerUpdate
    \/ DIPFit
    \/ DIPPredict
    \/ DIPDualUpdate
    \/ DIPCallback
    \/ DIPReturn
    \/ Release

SpecDIP == InitDIP /\ [][NextDIP]_vars

\* the inputs of one inner update: x_network and mu of either sign, and
\* norm_BP >= 0, rho > 0, x_EM >= 0, from zero and the smallest values up to the largest
SampleMagnitudes == {0, 1, 2, Pow2(FracBits), MaxFinite}

SignedSamples == {Fin(sign * r) : sign \in {-1, 1}, r \in SampleMagnitudes}

NonNegativeSamples == {Fin(r) : r \in SampleMagnitudes}

PositiveSamples == {Fin(r) : r \in SampleMagnitudes \ {0}}

\* a __call__ about to execute line 81
InitUpdate ==
    /\ variant = "rotsum"
    /\ num_projections = 1
    /\ n_parallel = 1
    /\ obj2obj_transforms = <<>>
    /\ proj2proj_transforms = <<>>
    /\ subset_indices_array = [set |-> FALSE, val |-> <<>>]
    /\ last_n_subsets = 0
    /\ prev_n_subsets = 0
    /\ ret = Idle
    /\ NoFunctionCall
    /\ NoLikelihood
    /\ x_network \in SignedSamples
    /\ norm_BP \in NonNegativeSamples
    /\ prior_network = [kind |-> "identity", theta |-> x_network]
    /\ normalization_factor = norm_BP
    /\ em_ratio = [q \in 1..MaxSubsetsOSEM |-> One]
    /\ rho \in PositiveSamples
    /\ EM_object_prediction \in NonNegativeSamples
    /\ object_prediction = [set |-> FALSE, val |-> Zero]
    /\ callback = FALSE
    /\ pc = "update"
    /\ n_iters = 1
    /\ subit1 = 1
    /\ n_subsets_osem = 1
    /\ loop_iter = 0
    /\ loop_j = 0
    /\ loop_k = 0
    /\ mu \in SignedSamples
    /\ x_admm = x_network
    /\ log = <<>>
    /\ called_before = FALSE

NextUpdate == DIPInnerUpdate

SpecUpdate == InitUpdate /\ [][NextUpdate]_vars

----------------------------------------------------------------------------
\* Vocabulary of the properties

\* the views of the full index set
AllViews == 0..(num_projections - 1)

\* the positions <<m, p>> of the partition that hold view v
PositionsOf(v) ==
    {mp \in {<<m, p>> : m \in DOMAIN subset_indices_array.val, p \in 1..num_projections} :
        /\ mp[2] \in DOMAIN subset_indices_array.val[mp[1]]
        /\ subset_indices_array.val[mp[1]][mp[2]] = v}

\* the subset (0-based) a Python index selects out of k subsets
Normalized(i, k) == IF i < 0 THEN k + i ELSE i

\* whether subset_idx = arg selects views on the current state: None, or an
\* index for which the partition exists and has an entry
Selects(arg) == arg.none \/ SubsetLookup(subset_indices_array, arg.i).ok

\* the views that subset_idx = arg asks for, in order
RequestedViews(arg) ==
    IF arg.none THEN Arange(num_projections)
    ELSE SubsetLookup(subset_indices_array, arg.i).val

\* the view indices handed to the steps of a plane's history that take one
IndexedOps == {"rotation.backward", "rotation.forward", "obj2obj.forward",
               "obj2obj.backward", "system_matrix.einsum_ij_j",
               "system_matrix.einsum_ij_i"}

IndicesOf(hist) == {hist[q].idx : q \in {r \in DOMAIN hist : hist[r].op \in IndexedOps}}

\* C1: after set_n_subsets(k), k >= 1 (also k greater than the number of
\* views), there are k subsets, they hold view indices of 0..N-1 only, and every
\* view index occurs at exactly one position of exactly one subset.
C1_SubsetsPartitionViews ==
    subset_indices_array.set =>
        /\ Len(subset_indices_array.val) = last_n_subsets
        /\ \A m \in DOMAIN subset_indices_array.val :
             \A p \in DOMAIN subset_indices_array.val[m] :
                subset_indices_array.val[m][p] \in AllViews
        /\ \A v \in AllViews : Cardinality(PositionsOf(v)) = 1

C1_Witness ==
    /\ ret.op = "set_n_subsets"
    /\ last_n_subsets > num_projections
    /\ num_projections >= 2
    /\ \E m \in DOMAIN subset_indices_array.val : subset_indices_array.val[m] = <<>>

\* C2: after set_n_subsets(k), view v is in subset m iff v mod k = m, and the
\* views of each subset are stored in strictly increasing order.
C2_RoundRobinStride ==
    subset_indices_array.set =>
        \A m \in DOMAIN subset_indices_array.val :
            LET sub == subset_indices_array.val[m]
            IN  /\ \A v \in AllViews :
                     (\E p \in DOMAIN sub : sub[p] = v) <=> (v % last_n_subsets = m - 1)
                /\ \A p \in DOMAIN sub : \A q \in DOMAIN sub : p < q => sub[p] < sub[q]

C2_Witness ==
    /\ ret.op = "set_n_subsets"
    /\ last_n_subsets >= 2
    /\ \E m \in DOMAIN subset_indices_array.val : Len(subset_indices_array.val[m]) >= 2
    /\ \E m \in DOMAIN subset_indices_array.val : Len(subset_indices_array.val[m]) = 1

\* C3: for the rotate-and-sum system matrix, forward(object, m) returns one
\* slot per view of subset m, slot j being the projection of the object at the
\* subset's j-th view, and backward(proj, m) adds one plane per slot of its
\* input into the volume, slot j treated as the subset's j-th view; with
\* subset_idx = None the views are 0..N-1, slot j being view j.
C3_SubsetRestrictsViews ==
    (variant = "rotsum" /\ ret.op \in {"forward", "backward"} /\ Selects(ret.arg)) =>
        LET views == RequestedViews(ret.arg)
        IN  /\ ret.res.ok
            /\ ret.op = "forward" =>
                 \A b \in 1..ret.B :
                    /\ Len(ret.res.val[b]) = Len(views)
                    /\ \A j \in DOMAIN views :
                         /\ ret.res.val[b][j].src = Source("object", b - 1, 0)
                         /\ IndicesOf(ret.res.val[b][j].hist) = {<<views[j]>>}
            /\ ret.op = "backward" =>
                 \A b \in 1..ret.B :
                    /\ Len(ret.res.val[1][b]) = Len(views)
                    /\ \A j \in DOMAIN views :
                         /\ ret.res.val[1][b][j].src = Source("proj", b - 1, j - 1)
                         /\ IndicesOf(ret.res.val[1][b][j].hist) = {<<views[j]>>}

\* C4: the ray-based system matrix keeps the same subset contract: forward(object, m)
\* returns one slot per view of subset m, with the projection of the subset's
\* j-th view in slot j and no write outside the output, and backward(proj, m)
\* reads slot j as that same view.
C4_RayBasedSubsetContract ==
    (variant = "complete" /\ ret.op \in {"forward", "backward"} /\ Selects(ret.arg)
        /\ ~ret.flag.given) =>
        LET views == RequestedViews(ret.arg)
        IN  /\ ret.res.ok
            /\ ret.op = "forward" =>
                 /\ Len(ret.res.val[1]) = Len(views)
                 /\ \A j \in DOMAIN views :
                      /\ ret.res.val[1][j].src = Source("object", 0, 0)
                      /\ IndicesOf(ret.res.val[1][j].hist) = {<<views[j]>>}
            /\ ret.op = "backward" =>
                 /\ Len(ret.res.val[1][1]) = Len(views)
                 /\ \A j \in DOMAIN views :
                      /\ ret.res.val[1][1][j].src = Source("proj", 0, j - 1)
                      /\ IndicesOf(ret.res.val[1][1][j].hist) = {<<views[j]>>}

C3_HoldsForOneVolume ==
    ret.B = 1 => C3_SubsetRestrictsViews

\* the projection tensor of compatible shape that the last call was (or would be) given
CompatibleInput == ProjInput(ret.B, ViewCount(subset_indices_array, num_projections, ret.arg))

Kinds(hist) == [q \in DOMAIN hist |-> <<hist[q].op, hist[q].t>>]

ForwardOrder ==
    << <<"pad_object", 0>>, <<"rotation.backward", 0>> >>
    \o [q \in DOMAIN obj2obj_transforms |-> <<"obj2obj.forward", obj2obj_transforms[q]>>]
    \o << <<"sum", 0>> >>
    \o [q \in DOMAIN proj2proj_transforms |-> <<"proj2proj.forward", proj2proj_transforms[q]>>]
    \o << <<"unpad_proj", 0>> >>

BackwardOrder ==
    << <<"pad_proj", 0>> >>
    \o [q \in DOMAIN proj2proj_transforms |->
          <<"proj2proj.backward",
            proj2proj_transforms[Len(proj2proj_transforms) + 1 - q]>>]
    \o << <<"broadcast", 0>> >>
    \o [q \in DOMAIN obj2obj_transforms |->
          <<"obj2obj.backward",
            obj2obj_transforms[Len(obj2obj_transforms) + 1 - q]>>]
    \o << <<"rotation.forward", 0>>, <<"accumulate", 0>>, <<"unpad_object", 0>> >>

\* C6: every plane that SPECTSystemMatrix.forward returns went through pad
\* object, rotation (rotation_transform.backward), the obj2obj transforms in
\* list order (forward), the sum, the proj2proj transforms in list order
\* (forward) and the crop; every plane that backward accumulates went through
\* pad projections, the proj2proj transforms in reversed list order
\* (backward), the broadcast, the obj2obj transforms in reversed list order
\* (backward), the opposite rotation (rotation_transform.forward, with the
\* index the object transforms of that plane got), the accumulation and the
\* crop; for transform lists of every length.
C6_BackwardReversesForward ==
    (variant = "rotsum" /\ ret.res.ok) =>
        /\ ret.op = "forward" =>
             \A b \in DOMAIN ret.res.val : \A j \in DOMAIN ret.res.val[b] :
                Kinds(ret.res.val[b][j].hist) = ForwardOrder
        /\ ret.op = "backward" =>
             \A b \in DOMAIN ret.res.val[1] : \A j \in DOMAIN ret.res.val[1][b] :
                /\ Kinds(ret.res.val[1][b][j].hist) = BackwardOrder
                /\ Cardinality(IndicesOf(ret.res.val[1][b][j].hist)) = 1

C6_Witness ==
    /\ variant = "rotsum"
    /\ ret.op = "backward"
    /\ ret.res.ok
    /\ Len(obj2obj_transforms) >= 2
    /\ Len(proj2proj_transforms) >= 2
    /\ ret.res.val[1][1] # <<>>

\* the adjoint of a step, and of a chain of steps (the accumulation over views
\* is the adjoint of handing the one object to every view, which is no step)
AdjointName(op) ==
    CASE op = "pad_object" -> "unpad_object"
      [] op = "unpad_object" -> "pad_object"
      [] op = "rotation.backward" -> "rotation.forward"
      [] op = "rotation.forward" -> "rotation.backward"
      [] op = "obj2obj.forward" -> "obj2obj.backward"
      [] op = "obj2obj.backward" -> "obj2obj.forward"
      [] op = "sum" -> "broadcast"
      [] op = "broadcast" -> "sum"
      [] op = "proj2proj.forward" -> "proj2proj.backward"
      [] op = "proj2proj.backward" -> "proj2proj.forward"
      [] op = "unpad_proj" -> "pad_proj"
      [] op = "pad_proj" -> "unpad_proj"
      [] op = "system_matrix.einsum_ij_j" -> "system_matrix.einsum_ij_i"
      [] op = "system_matrix.einsum_ij_i" -> "system_matrix.einsum_ij_j"
      [] OTHER -> op

NotAccumulate(s) == s.op # "accumulate"

AdjointOf(hist) ==
    LET h == SelectSeq(hist, NotAccumulate)
    IN  [q \in DOMAIN h |-> Step(AdjointName(h[Len(h) + 1 - q].op),
                                 h[Len(h) + 1 - q].t, h[Len(h) + 1 - q].idx)]

\* the operators by which forward takes volume b into slot j of volume b2's
\* projections, and those whose adjoints backward applies on the way back
ForwardEntry(F, b2, j, b) ==
    IF F[b2][j].src = Source("object", b - 1, 0) THEN {F[b2][j].hist} ELSE {}

BackwardEntry(V, b, b2, j) ==
    {AdjointOf(V[b][q].hist) :
        q \in {r \in DOMAIN V[b] : V[b][r].src = Source("proj", b2 - 1, j - 1)}}

\* C7: forward and backward are an adjoint pair, for either variant, every
\* transform pipeline and every subset index or None: <forward(f), g> =
\* <f, backward(g)> for every f and g of compatible shape, that is, taken on
\* the unit tensors, the operator from volume b to slot j of batch element b2
\* in forward is the adjoint of the one from that slot to volume b in backward.
C7_AdjointPair ==
    (ret.op = "forward" /\ Selects(ret.arg)) =>
        LET Bk == backward(variant, subset_indices_array, num_projections, n_parallel,
                           obj2obj_transforms, proj2proj_transforms, CompatibleInput,
                           ret.arg, NoFlag)
        IN  /\ ret.res.ok
            /\ Bk.ok
            /\ \A b \in 1..ret.B : \A b2 \in 1..ret.B :
                 \A j \in DOMAIN CompatibleInput[b2] :
                    ForwardEntry(ret.res.val, b2, j, b) = BackwardEntry(Bk.val[1], b, b2, j)

C7_HoldsForRotateAndSumOfOneVolume ==
    (variant = "rotsum" /\ ret.B = 1) => C7_AdjointPair

\* the views of subset_idx = arg under the partition that the most recent
\* set_n_subsets call asked for, in increasing order
RECURSIVE Ascending(_)
Ascending(S) ==
    IF S = {} THEN <<>>
    ELSE LET least == CHOOSE x \in S : \A y \in S : x <= y
         IN  <<least>> \o Ascending(S \ {least})

LatestViews(arg) ==
    IF arg.none THEN Ascending(AllViews)
    ELSE Ascending({v \in AllViews :
                      v % last_n_subsets = Normalized(arg.i, last_n_subsets)})

\* how often plane x is added into volume V
Count(V, x) == Cardinality({q \in DOMAIN V : V[q] = x})

RECURSIVE SumOver(_, _)
SumOver(f, S) ==
    IF S = {} THEN 0
    ELSE LET m == CHOOSE x \in S : TRUE IN f[m] + SumOver(f, S \ {m})

EqualSizeSubsets ==
    /\ subset_indices_array.set
    /\ \A m \in DOMAIN subset_indices_array.val :
         Len(subset_indices_array.val[m]) = Len(subset_indices_array.val[1])

NormFactor(arg) ==
    compute_normalization_factor(variant, subset_indices_array, num_projections,
        n_parallel, obj2obj_transforms, proj2proj_transforms, arg)

\* C8: compute_normalization_factor(m) is backward, for subset m, of an
\* all-ones projection tensor that holds exactly the views of subset m of the
\* partition of the most recent set_n_subsets call (all views for None): one
\* plane of ones per such view, back-projected at that view; and when the
\* subsets are of equal size, the planes added up over m = 0..k-1 are those of
\* compute_normalization_factor(None), each as often.
C8_NormalizationFactor ==
    (ret.op = "compute_normalization_factor" /\ Selects(ret.arg)) =>
        LET views == LatestViews(ret.arg)
            ones == <<[q \in DOMAIN views |-> Source("ones", 0, views[q])]>>
            k == last_n_subsets
            all == NormFactor(NoneArg).val[1][1]
            part == [m \in 1..k |-> NormFactor(IntArg(m - 1)).val[1][1]]
        IN  /\ ret.res.ok
            /\ ret.res = backward(variant, subset_indices_array, num_projections,
                                  n_parallel, obj2obj_transforms, proj2proj_transforms,
                                  ones, ret.arg, NoFlag)
            /\ Len(ret.res.val[1][1]) = Len(views)
            /\ \A q \in DOMAIN views :
                 /\ ret.res.val[1][1][q].src = Source("ones", 0, views[q])
                 /\ IndicesOf(ret.res.val[1][1][q].hist) = {<<views[q]>>}
            /\ EqualSizeSubsets =>
                 /\ \A m \in 1..k : \A q \in DOMAIN part[m] : Count(all, part[m][q]) = 1
                 /\ \A q \in DOMAIN all :
                      SumOver([m \in 1..k |-> Count(part[m], all[q])], 1..k) = Count(all, all[q])

C8_Witness ==
    /\ ret.op = "compute_normalization_factor"
    /\ ret.res.ok
    /\ ~ret.arg.none
    /\ EqualSizeSubsets
    /\ last_n_subsets >= 2
    /\ Len(ret.res.val[1][1]) >= 2
    /\ ret.res.val[1][1][1].src.j >= 1

\* the volume V with the data of every plane replaced by ones
OnesThrough(V) ==
    [b \in DOMAIN V |-> [q \in DOMAIN V[b] |->
        Plane(Source("ones", V[b][q].src.b, V[b][q].src.j), V[b][q].hist)]]

\* C9: both variants take backward(projections, subset_idx,
\* return_norm_constant): with return_norm_constant false the object alone
\* comes back, with true the pair (object, norm_constant), norm_constant being
\* the back-projection of ones of the input's shape through the same steps and
\* views.
C9_BackwardNormConstant ==
    (ret.op = "backward" /\ Selects(ret.arg) /\ ret.flag.given) =>
        /\ ret.res.ok
        /\ ~ret.flag.v => Len(ret.res.val) = 1
        /\ ret.flag.v =>
             /\ Len(ret.res.val) = 2
             /\ ret.res.val[2] = OnesThrough(ret.res.val[1])

C9_HoldsForRotateAndSum ==
    variant = "rotsum" => C9_BackwardNormConstant

\* a/b + c/d, fractions as <<numerator, denominator>>
RECURSIVE SumFractions(_)
SumFractions(fs) ==
    IF fs = <<>> THEN <<0, 1>>
    ELSE LET r == SumFractions(Tail(fs))
         IN  <<Head(fs)[1] * r[2] + r[1] * Head(fs)[2], Head(fs)[2] * r[2]>>

\* C10: get_weighting_subset(m) is (number of views of subset m) / (number of
\* views) and get_weighting_subset(None) is 1; the weights of the subsets of
\* the partition add up to 1, also for subsets of unequal size and empty ones.
C10_SubsetWeights ==
    (ret.op = "get_weighting_subset" /\ Selects(ret.arg)) =>
        LET k == last_n_subsets
            weights == [m \in 1..k |->
                          get_weighting_subset(subset_indices_array, num_projections,
                                               IntArg(m - 1)).val]
        IN  /\ ret.res.ok
            /\ ret.arg.none => ret.res.val = <<1, 1>>
            /\ ~ret.arg.none =>
                 /\ ret.res.val[2] > 0
                 /\ ret.res.val[1] * num_projections =
                        ret.res.val[2] * Len(LatestViews(ret.arg))
                 /\ SumFractions(weights)[1] = SumFractions(weights)[2]

C10_Witness ==
    /\ ret.op = "get_weighting_subset"
    /\ ret.res.ok
    /\ ~ret.arg.none
    /\ ret.res.val[1] = 0
    /\ \E m \in DOMAIN subset_indices_array.val : Len(subset_indices_array.val[m]) >= 1

----------------------------------------------------------------------------
\* Partition errors and re-partitioning

\* the operations that take a subset index
PartitionOps == {"forward", "backward", "compute_normalization_factor",
                 "get_projection_subset", "get_weighting_subset"}

\* the partition of N views into k subsets, written out: subset m holds the
\* views v with v mod k = m, ascending
FreshPartition(N, k) ==
    [m \in 1..k |-> Ascending({v \in 0..(N - 1) : v % k = m - 1})]

\* C11: whatever set_n_subsets calls came before (none, one with the same k,
\* one with another j), after set_n_subsets(k) the subset assignment is the one
\* that k and the number of views alone determine: k subsets, nothing of the
\* earlier partition among them.
C11_RepartitionIsHistoryFree ==
    subset_indices_array.set =>
        /\ last_n_subsets >= 1
        /\ subset_indices_array.val = FreshPartition(num_projections, last_n_subsets)

C11_Witness ==
    /\ ret.op = "set_n_subsets"
    /\ prev_n_subsets > last_n_subsets
    /\ last_n_subsets >= 2
    /\ num_projections > last_n_subsets

C11_WitnessSameTwice ==
    /\ ret.op = "set_n_subsets"
    /\ prev_n_subsets = last_n_subsets
    /\ last_n_subsets >= 2

C13_OutOfRangeIndexErrors ==
    (subset_indices_array.set /\ ret.op \in PartitionOps /\ ~ret.arg.none
        /\ ret.arg.i \notin 0..(last_n_subsets - 1)) =>
        ~ret.res.ok

C13_HoldsFromKUpwards ==
    ret.arg.i >= 0 => C13_OutOfRangeIndexErrors

\* what the code does with index -1 after set_n_subsets(k): the result of subset k-1
C13_MinusOneSelectsLastSubset ==
    (subset_indices_array.set /\ variant = "rotsum" /\ ret.op = "forward"
        /\ ret.arg = IntArg(-1)) =>
        ret.res = SPECTSystemMatrix_forward(subset_indices_array, num_projections,
                      n_parallel, obj2obj_transforms, proj2proj_transforms, ret.B,
                      IntArg(last_n_subsets - 1))

----------------------------------------------------------------------------
\* The gradient of the mean-squared-error likelihoods

\* the slots of the data tensor `kind` at the views `views`, per batch element
Restricted(kind, B, views) ==
    [b \in 1..B |-> [j \in DOMAIN views |-> Source(kind, b - 1, views[j])]]

\* forward(f, m) + additive_m, written out slot by slot
PredictedFor(arg, B) ==
    LET views == RequestedViews(arg)
        F == forward(variant, subset_indices_array, num_projections, n_parallel,
                     obj2obj_transforms, proj2proj_transforms, B, arg)
    IN  [b \in 1..B |-> [j \in DOMAIN views |->
            [kind |-> "add", left |-> F.val[b][j],
             right |-> Source("additive", b - 1, views[j])]]]

\* g_m - (forward(f, m) + additive_m), written out slot by slot
ResidualFor(arg, B) ==
    LET views == RequestedViews(arg)
        predicted == PredictedFor(arg, B)
    IN  [b \in 1..B |-> [j \in DOMAIN views |->
            [kind |-> "sub", left |-> Source("proj", b - 1, views[j]),
             right |-> predicted[b][j]]]]

\* C14: NegativeMSELikelihood.compute_gradient(f, m) is scaling_constant times
\* backward(g_m - (forward(f, m) + additive_m), m): slot j of the residual is
\* the observed projection of the j-th view of subset m minus (the forward
\* projection at that view plus the additive term of that view), all views
\* for m = None; when forward(f, m) raises, so does compute_gradient.
C14_GradientOfSubset ==
    (likelihood = "NegativeMSELikelihood" /\ ret.op = "compute_gradient"
        /\ Selects(ret.arg)) =>
        LET F == forward(variant, subset_indices_array, num_projections, n_parallel,
                         obj2obj_transforms, proj2proj_transforms, ret.B, ret.arg)
            Bk == backward(variant, subset_indices_array, num_projections, n_parallel,
                           obj2obj_transforms, proj2proj_transforms,
                           ResidualFor(ret.arg, ret.B), ret.arg, NoFlag)
        IN  IF F.ok
            THEN /\ Bk.ok
                 /\ ret.res.ok
                 /\ ret.res.val =
                      <<Apply(Bk.val[1], <<Step("mul", scaling_constant, <<>>)>>)>>
            ELSE ~ret.res.ok

C14_Witness ==
    /\ likelihood = "NegativeMSELikelihood"
    /\ variant = "rotsum"
    /\ ret.op = "compute_gradient"
    /\ ret.res.ok
    /\ ~ret.arg.none
    /\ ret.arg.i >= 1
    /\ Len(RequestedViews(ret.arg)) >= 2
    /\ scaling_constant # 1

\* the gradient that the likelihood in its current state returns for subset_idx = arg
\* when its cache holds `cached`
GradientBy(cached, arg, norm_BP_subset_method) ==
    IF likelihood = "NegativeMSELikelihood"
    THEN NegativeMSELikelihood_compute_gradient(variant, subset_indices_array,
             num_projections, n_parallel, obj2obj_transforms, proj2proj_transforms,
             projections, additive_term, scaling_constant, cached, arg,
             norm_BP_subset_method)
    ELSE SARTWeightedNegativeMSELikelihood_compute_gradient(variant,
             subset_indices_array, num_projections, n_parallel, obj2obj_transforms,
             proj2proj_transforms, projections, additive_term, cached, arg,
             norm_BP_subset_method)

GradientWith(cached, arg) == GradientBy(cached, arg, "subset_specific").res

\* C15: a compute_gradient call of either likelihood leaves the system matrix,
\* its partition, the observed projections, the additive term and the scaling
\* constant as they were; when it returns, projections_predicted holds
\* forward(f, m) + additive_m of this call; and the gradient is the one the
\* likelihood returns with an empty cache and with any other cache content.
C15_GradientTouchesOnlyCache ==
    [][ret'.op = "compute_gradient" =>
          /\ UNCHANGED <<function_call, config, partition, likelihood_data>>
          /\ ret'.res.ok =>
               projections_predicted' = Cached(PredictedFor(ret'.arg, ret'.B))
          /\ ret'.res = GradientWith([set |-> FALSE, val |-> <<>>], ret'.arg)
          /\ ret'.res = GradientWith(Cached(projections), ret'.arg)]_vars

C15_Witness ==
    /\ likelihood = "SARTWeightedNegativeMSELikelihood"
    /\ ret.op = "compute_gradient"
    /\ ret.res.ok
    /\ ~ret.arg.none
    /\ projections_predicted.set
    /\ Len(projections_predicted.val[1]) >= 2
    /\ Len(projections_predicted.val[1]) < num_projections


\* ---- DIPRecon: the order of the operations of a call ----

\* what the log tells of each operation: which, on which subset, in which
\* outer iteration, and the n_iters and n_subsets handed to the EM sub-solver
Operations == [p \in DOMAIN log |->
                  <<log[p].ev, log[p].subset, log[p].iter, log[p].n_iters, log[p].n_subsets>>]

\* the operations of one outer iteration: two for every subset of every
\* round, then fit, predict, the dual update, and the callback if there is one
PerIteration(s, m, cb) == 2 * s * m + 3 + (IF cb THEN 1 ELSE 0)

ExpectedLength(n, s, m, cb) == 2 + n * PerIteration(s, m, cb)

ExpectedOperation(p, s, m, cb) ==
    IF p = 1 THEN <<"compute_normalization_factor", NoneArg, 0, 0, 0>>
    ELSE IF p = 2 THEN <<"predict", NoneArg, 0, 0, 0>>
    ELSE LET iter == (p - 3) \div PerIteration(s, m, cb)
             off == (p - 3) % PerIteration(s, m, cb)
             k == (off % (2 * m)) \div 2
         IN  IF off < 2 * s * m
             THEN IF off % 2 = 0 THEN <<"EM", IntArg(k), iter, 1, m>>
                  ELSE <<"update", IntArg(k), iter, 0, 0>>
             ELSE IF off = 2 * s * m THEN <<"fit", NoneArg, iter, 0, 0>>
             ELSE IF off = 2 * s * m + 1 THEN <<"predict", NoneArg, iter, 0, 0>>
             ELSE IF off = 2 * s * m + 2 THEN <<"dual", NoneArg, iter, 0, 0>>
             ELSE <<"callback", NoneArg, iter, 0, 0>>

\* the value of the last operation ev before position p, or otherwise
LastBefore(p, ev, otherwise) ==
    LET earlier == {q \in 1..(p - 1) : log[q].ev = ev}
    IN  IF earlier = {} THEN otherwise
        ELSE log[CHOOSE q \in earlier : \A r \in earlier : r <= q].val

CountOf(ev) == Cardinality({p \in DOMAIN log : log[p].ev = ev})

C26_WitnessMSE ==
    /\ likelihood = "NegativeMSELikelihood"
    /\ ret.op = "compute_gradient"
    /\ ret.res.ok
    /\ ~ret.arg.none
    /\ Len(subset_indices_array.val) >= 2

\* C16: every outer iteration of DIPRecon.__call__ runs, in this order,
\* subit1 rounds over the subsets k = 0..n_subsets_osem-1 in ascending order,
\* each an EM step EM_algorithm(n_iters=1, n_subsets=n_subsets_osem,
\* n_subset_specific=k) followed by the update of x, then one fit, with the
\* argument x + mu for mu as it was before this iteration's dual update, then
\* one predict giving the new x_network, then the dual update mu += x -
\* x_network; a call that has run its loop made n_iters * subit1 *
\* n_subsets_osem EM calls and n_iters fits
C16_OrderOfOperations ==
    pc # "idle" =>
        /\ Len(log) <= ExpectedLength(n_iters, subit1, n_subsets_osem, callback)
        /\ \A p \in DOMAIN log :
               /\ Operations[p] = ExpectedOperation(p, subit1, n_subsets_osem, callback)
               /\ log[p].ev = "EM" =>
                      log[p].aux = ReLU(LastBefore(p, "update", log[2].val))
               /\ log[p].ev = "fit" =>
                      log[p].val = FAdd(LastBefore(p, "update", log[2].val),
                                        LastBefore(p, "dual", Zero))
               /\ log[p].ev = "dual" =>
                      /\ log[p - 1].ev = "predict"
                      /\ log[p].val = FAdd(LastBefore(p, "dual", Zero),
                                           FSub(LastBefore(p, "update", log[2].val),
                                                log[p - 1].val))
        /\ pc = "return" =>
               /\ Len(log) = ExpectedLength(n_iters, subit1, n_subsets_osem, callback)
               /\ CountOf("EM") = n_iters * subit1 * n_subsets_osem
               /\ CountOf("fit") = n_iters

\* a call of two outer iterations of two rounds over two subsets has run its
\* loop, and its second fit had a dual variable that mattered
C16_Witness ==
    /\ pc = "return"
    /\ n_iters = 2
    /\ subit1 = 2
    /\ n_subsets_osem = 2
    /\ \E p \in DOMAIN log :
           /\ log[p].ev = "fit"
           /\ log[p].iter = 1
           /\ log[p].aux # Zero
           /\ log[p].val # LastBefore(p, "update", log[2].val)


\* ---- DIPRecon: the callback and the value returned ----

\* the step on which __call__ ends
CallEnds == pc = "return" /\ pc' = "idle"

Callbacks == SelectSeq(log, LAMBDA e : e.ev = "callback")

\* the invocations of the callback of a call that has run its loop: one for
\* each outer iteration, in order, at the end of the iteration, with the
\* rectified estimate of that iteration and subset index None; none without
\* a callback
CallbackProtocol ==
    /\ loop_iter = n_iters
    /\ Len(Callbacks) = (IF callback THEN n_iters ELSE 0)
    /\ \A i \in DOMAIN Callbacks :
           /\ Callbacks[i].iter = i - 1
           /\ Callbacks[i].subset = NoneArg
    /\ \A p \in DOMAIN log :
           log[p].ev = "callback" =>
               /\ log[p - 1].ev = "dual"
               /\ log[p].val = ReLU(LastBefore(p, "predict", Zero))
               /\ p = Len(log) \/ log[p + 1].iter = log[p].iter + 1

\* C17: with a callback, __call__(n_iters, ...) invokes it exactly n_iters
\* times, once at the end of each outer iteration, with the current
\* rectified estimate, the index of the outer iteration and subset index
\* None, and then returns; without a callback it is never invoked; the call
\* ends after n_iters outer iterations
C17_CallbackThenReturn ==
    [][CallEnds => (CallbackProtocol /\ ret'.res.ok)]_vars

\* the callback is invoked as C17 says in every call
C17_CallbackProtocolHolds ==
    pc = "return" => CallbackProtocol

\* the call returns whenever it has an outer iteration to run, or an earlier
\* call on the instance had one
C17_ReturnsAfterAnIteration ==
    [][(CallEnds /\ (n_iters >= 1 \/ object_prediction.set)) => ret'.res.ok]_vars

\* the operations and outer iterations a running call has behind it
Progress == Len(log) + loop_iter

\* every call comes to its end: each of its steps ends it or adds to its
\* progress, which never exceeds what n_iters outer iterations amount to
C17_CallTerminates ==
    [][pc # "idle" =>
          /\ Progress <= ExpectedLength(n_iters, subit1, n_subsets_osem, callback) + n_iters
          /\ pc' = "idle" \/ Progress' > Progress]_vars

\* a call with a callback and two outer iterations has run its loop
C17_CallbackInvokedTwice ==
    pc = "return" /\ callback /\ n_iters = 2 /\ Len(Callbacks) = 2

\* C18: for every n_iters >= 0, and whether or not the instance was called
\* before, the tensor DIPRecon.__call__ returns is the rectified estimate of
\* this call (ReLU of the network's last prediction in it), so none of its
\* entries is negative
C18_ReturnsRectifiedEstimate ==
    [][CallEnds =>
          /\ ret'.res.ok
          /\ ret'.res.val = <<ReLU(x_network)>>
          /\ ~IsNegative(ret'.res.val[1])]_vars

\* with at least one outer iteration the call returns as C18 says
C18_HoldsFromOneIteration ==
    [][(CallEnds /\ n_iters >= 1) =>
          /\ ret'.res = Ok(<<ReLU(x_network)>>)
          /\ ~IsNegative(ret'.res.val[1])]_vars

\* a call with n_iters = 0 on an instance that never ran an outer iteration
\* ends in an AttributeError
C18_FirstCallWithoutIterationsRaises ==
    [][(CallEnds /\ n_iters = 0 /\ ~object_prediction.set) =>
          ret'.res = Raise("AttributeError")]_vars

\* a later call with n_iters = 0 returns what the call before it left in
\* self.object_prediction
C18_LaterCallWithoutIterationsReturnsTheOldEstimate ==
    [][(CallEnds /\ n_iters = 0 /\ object_prediction.set) =>
          /\ called_before
          /\ ret'.res = Ok(<<object_prediction.val>>)]_vars


\* ---- DIPRecon with an identity network ----

RECURSIVE PureEMFrom(_, _, _, _)
\* the EM sub-solver alone: steps t, t+1, .. of `total`, cycling over m subsets
PureEMFrom(estimate, t, total, m) ==
    IF t >= total THEN estimate
    ELSE PureEMFrom(EM_algorithm(estimate, t % m), t + 1, total, m)

\* the estimate of the pure EM solver after `rounds` rounds over the subsets,
\* from the initial estimate the call started with (the rectified prediction)
PureEM(rounds) == PureEMFrom(ReLU(log[2].val), 0, rounds * n_subsets_osem, n_subsets_osem)

\* every inner update of the call gave back the value of its EM step, and
\* the dual variable stayed zero
UpdatesFollowEM ==
    \A p \in DOMAIN log :
        /\ log[p].ev = "update" => log[p].val = log[p - 1].val
        /\ log[p].ev = "dual" => log[p].val = Zero

\* C19: with an identity network, for every n_iters, the volume
\* DIPRecon.__call__(n_iters, subit1) returns equals the estimate of the pure
\* EM solver after n_iters * subit1 steps from the same initial estimate
C19_IdentityNetworkGivesPureEM ==
    [][(CallEnds /\ prior_network.kind = "identity") =>
          ret'.res = Ok(<<PureEM(n_iters * subit1)>>)]_vars

\* C19 as amended: with an identity network, for every n_iters >= 1, the
\* volume DIPRecon.__call__(n_iters, subit1) returns is ReLU of the x + mu
\* that was passed to the last fit; it equals the estimate of the pure EM
\* solver after n_iters * subit1 rounds from the same initial estimate if
\* the dual variable stayed zero and every inner update gave back the value
\* of its EM step
C19_IdentityNetworkReturnsLastFit ==
    [][(CallEnds /\ prior_network.kind = "identity" /\ n_iters >= 1) =>
          /\ ret'.res = Ok(<<ReLU(LastBefore(Len(log) + 1, "fit", Zero))>>)
          /\ UpdatesFollowEM => ret'.res = Ok(<<PureEM(n_iters * subit1)>>)]_vars

\* a call on an identity network, about to return after two outer
\* iterations whose updates all gave back their EM steps' values, with an
\* estimate and a normalization factor that are not zero
C19_Witness ==
    /\ pc = "return"
    /\ prior_network.kind = "identity"
    /\ n_iters = 2
    /\ subit1 >= 1
    /\ norm_BP # Zero
    /\ UpdatesFollowEM
    /\ object_prediction = [set |-> TRUE, val |-> PureEM(n_iters * subit1)]
    /\ object_prediction.val # Zero

\* a first call on an identity network, about to return after one outer
\* iteration of one EM step, with an estimate which is not that EM step's
C19_BlendedEstimate ==
    /\ pc = "return"
    /\ prior_network.kind = "identity"
    /\ ~called_before
    /\ n_iters = 1
    /\ subit1 = 1
    /\ n_subsets_osem = 1
    /\ object_prediction.set
    /\ object_prediction.val # PureEM(1)
    /\ \A p \in DOMAIN log : log[p].ev = "dual" => log[p].val = Zero


\* ---- DIPRecon: the inner update ----

\* a = x_net - mu - c/rho of the update about to be (or just) made
UpdateA == FSub(FSub(x_network, mu), FDiv(norm_BP, rho))

\* 4 * x_EM * c / rho
UpdateB == FDiv(FMul(FMul(Four, EM_object_prediction), norm_BP), rho)

\* the update has been made
Updated == pc = "fit" /\ Len(log) = 1 /\ log[1].ev = "update"

\* x_EM >= 0, c >= 0, rho > 0
UpdatePrecondition ==
    /\ IsNonNegative(EM_object_prediction)
    /\ IsNonNegative(norm_BP)
    /\ IsNonNegative(rho) /\ rho # Zero

\* C20: the inner update of DIPRecon is x = 1/2 a + 1/2 sqrt(a^2 + 4 x_EM
\* c / rho) with a = x_net - mu - c/rho (the root with '+' before the square
\* root), and its result is non-negative whenever x_EM >= 0, c >= 0 and
\* rho > 0, for every sign of a
C20_UpdateIsNonNegativeRoot ==
    (Updated /\ UpdatePrecondition) =>
        /\ x_admm = FAdd(FMul(Half, UpdateA),
                         FMul(Half, FSqrt(FAdd(FMul(UpdateA, UpdateA), UpdateB))))
        /\ IsNonNegative(x_admm)

\* the update is the root with '+' before the square root
C20_UpdateIsPlusRoot ==
    Updated =>
        x_admm = FAdd(FMul(Half, UpdateA),
                      FMul(Half, FSqrt(FAdd(FMul(UpdateA, UpdateA), UpdateB))))

\* a negative result: a is negative and so small that a^2 is rounded to
\* zero, and x_EM or c is zero, so that the square root is zero
C20_NegativeByUnderflow ==
    /\ Updated
    /\ UpdatePrecondition
    /\ IsNegative(UpdateA)
    /\ FMul(UpdateA, UpdateA) = Zero
    /\ UpdateB = Zero
    /\ IsNegative(x_admm)

\* no result at all: c/rho exceeds the largest float
C20_NaNByOverflow ==
    /\ Updated
    /\ UpdatePrecondition
    /\ FDiv(norm_BP, rho) = Inf(1)
    /\ x_admm = NaN

\* the result is non-negative as C20 says wherever neither a^2 is rounded
\* to zero nor anything exceeds the largest float
C20_HoldsWithinRange ==
    (/\ Updated
     /\ UpdatePrecondition
     /\ UpdateA = Zero \/ FMul(UpdateA, UpdateA) # Zero
     /\ UpdateA.cls = "fin"
     /\ FAdd(FMul(UpdateA, UpdateA), UpdateB).cls = "fin")
    => IsNonNegative(x_admm)


\* ---- DIPRecon: the estimate handed to the EM sub-solver ----

\* the step on which the EM sub-solver is called
EMCalled == pc = "em" /\ pc' = "update"

\* C21: before every call of the EM sub-solver its object estimate is
\* overwritten with a rectified copy of the current x: the step starts from
\* ReLU(x), whatever estimate the sub-solver held from its step before, it
\* sees no negative entry, and the copy is not x's own tensor, so that x is
\* not changed by the step
C21_ReseededFromRectifiedCopy ==
    [][EMCalled =>
          /\ log'[Len(log')].ev = "EM"
          /\ log'[Len(log')].aux = ReLU(x_admm)
          /\ ~IsNegative(log'[Len(log')].aux)
          /\ log'[Len(log')].val = EM_algorithm(ReLU(x_admm), loop_k)
          /\ EM_object_prediction' = EM_algorithm(ReLU(x_admm), loop_k)
          /\ x_admm' = x_admm]_vars

\* an EM step has been made from an estimate that is not the one the
\* sub-solver held from its step before, and gave a value that is not x
C21_Witness ==
    /\ pc = "update"
    /\ Len(log) >= 5
    /\ log[Len(log)].ev = "EM"
    /\ log[Len(log)].aux = ReLU(x_admm)
    /\ log[Len(log)].aux # LastBefore(Len(log), "EM", Zero)
    /\ log[Len(log)].val # x_admm

\* an EM step has been made with a negative x, from zero
C21_WitnessNegative ==
    /\ pc = "update"
    /\ log[Len(log)].ev = "EM"
    /\ IsNegative(x_admm)
    /\ log[Len(log)].aux = Zero


\* ---- DIPRecon: what a call starts from ----

\* the step on which __call__ begins
CallBegins == pc = "idle" /\ pc' # "idle"

\* C22: at the start of the first outer iteration of every __call__, mu = 0
\* and x = x_net = the current prediction of the prior network; nothing of
\* the mu of an earlier __call__ on the instance is carried over
C22_CallStartsFromPrediction ==
    [][/\ CallBegins =>
             /\ mu' = Zero
             /\ x_admm' = predict(prior_network)
             /\ x_network' = predict(prior_network)
             /\ prior_network' = prior_network
             /\ loop_iter' = 0
       /\ (pc = "dual" /\ loop_iter = 0) =>
             mu' = FAdd(Zero, FSub(x_admm, x_network))]_vars

\* a later call on the instance has begun: mu is zero and x is the network's
\* prediction, which is neither the one of construction time nor the
\* estimate the EM sub-solver holds
C22_Witness ==
    /\ called_before
    /\ object_prediction.set
    /\ Len(log) = 2
    /\ pc \in {"em", "fit"}
    /\ mu = Zero
    /\ x_admm = predict(prior_network)
    /\ x_network = x_admm
    /\ x_admm \notin InitialPredictions
    /\ x_admm # EM_object_prediction


\* ---- DIPRecon: the normalization factor of the update ----

\* C25: in DIPRecon.__call__ the normalization factor c of the quadratic
\* update is computed exactly once, before the first outer iteration, over
\* all views (subset_idx = None), and that value is used unchanged in every
\* update, for every n_subsets_osem and whichever subset the EM step before
\* it used; DIPRecon itself never sets or changes the subset partition of
\* the system matrix
C25_OneNormalizationFactor ==
    [][/\ pc' # "idle" =>
             /\ log'[1].ev = "compute_normalization_factor"
             /\ log'[1].subset = NoneArg
             /\ log'[1].val = normalization_factor
             /\ norm_BP' = log'[1].val
             /\ pc # "idle" => SubSeq(log', 1, Len(log)) = log
             /\ \A p \in DOMAIN log' : (pc = "idle" \/ p > Len(log)) =>
                    /\ log'[p].ev = "compute_normalization_factor" => p = 1
                    /\ log'[p].ev = "update" =>
                           /\ log'[p - 1].ev = "EM"
                           /\ log'[p].val =
                                  InnerUpdate(LastBefore(p, "predict", Zero), log'[p].aux,
                                              log'[1].val, rho, log'[p - 1].val)
       /\ (pc # "idle" \/ pc' # "idle") => UNCHANGED partition]_vars

\* a call over two subsets has made the update after the EM step of the
\* second subset, in its second outer iteration, with a factor that is not zero
C25_Witness ==
    /\ n_subsets_osem = 2
    /\ loop_iter = 1
    /\ log[Len(log)].ev = "update"
    /\ log[Len(log)].subset = IntArg(1)
    /\ norm_BP # Zero
    /\ x_admm # InnerUpdate(x_network, mu, FMul(Half, norm_BP), rho, EM_object_prediction)


\* ---- SPECTSystemMatrix.backward: the view indices handed along ----

\* every step of the plane that takes a view index was handed one, the view's own
CarriesView(plane, view) ==
    \A q \in DOMAIN plane.hist :
        plane.hist[q].op \in IndexedOps => plane.hist[q].idx = <<view>>

\* C27: in SPECTSystemMatrix.backward, as in forward, every plane handed to
\* the object transforms and to the rotation comes with the index of its own
\* view, for every batch size and every n_parallel: the list of view indices
\* handed along has an entry for every plane (batch size times the views of
\* the pass), and the entry of plane p is the view of plane p
C27_BackwardHandsEveryPlaneItsView ==
    (variant = "rotsum" /\ ret.op = "backward" /\ Selects(ret.arg)) =>
        /\ ret.res.ok
        /\ \A b \in 1..ret.B :
              \A j \in DOMAIN ret.res.val[1][b] :
                 /\ ret.res.val[1][b][j].src.kind = "proj"
                 /\ CarriesView(ret.res.val[1][b][j],
                                RequestedViews(ret.arg)[ret.res.val[1][b][j].src.j + 1])

\* backward hands every plane its view when the batch is one volume
C27_HoldsForOneVolume ==
    ret.B = 1 => C27_BackwardHandsEveryPlaneItsView

\* forward hands every plane its view, for every batch size
C27_ForwardHandsEveryPlaneItsView ==
    (variant = "rotsum" /\ ret.op = "forward" /\ Selects(ret.arg)) =>
        /\ ret.res.ok
        /\ \A b \in 1..ret.B :
              \A j \in DOMAIN ret.res.val[b] :
                 CarriesView(ret.res.val[b][j], RequestedViews(ret.arg)[j])

\* backward of a batch of two: the planes of the second volume were handed
\* no view index
C27_SecondVolumeWithoutViews ==
    /\ variant = "rotsum"
    /\ ret.op = "backward"
    /\ ret.B = 2
    /\ ret.res.ok
    /\ \A j \in DOMAIN ret.res.val[1][2] :
          \A q \in DOMAIN ret.res.val[1][2][j].hist :
             ret.res.val[1][2][j].hist[q].op \in IndexedOps
                => ret.res.val[1][2][j].hist[q].idx = <<>>
    /\ \A j \in DOMAIN ret.res.val[1][1] :
          CarriesView(ret.res.val[1][1][j], RequestedViews(ret.arg)[j])
    /\ Len(ret.res.val[1][2]) >= 2


----------------------------------------------------------------------------
\* SPECTCompleteSystemMatrix at the level of pixels and voxels: the masks
\* built by __init__ and their use in forward and backward.  A view has
\* `pixels` projection pixels (proj_meta.shape[1] * shape[2]), the object has
\* `voxels` voxels.  An entry of an output is the set of the products
\* summed into it, <<view, pixel, voxel>>: the empty set is a zero.

MaxMaskViews == 33
MaxMaskedViews == 2
MaxPixels == 2
MaxVoxels == 2

\* the number of rows in reshape(32,-1)
MaskRows == 32

\* tensor.reshape(rows, -1) of a flat tensor, row-major
Reshape(flat, rows) ==
    IF Len(flat) % rows # 0 THEN Raise("RuntimeError")
    ELSE Ok([r \in 1..rows |->
                SubSeq(flat, (r - 1) * (Len(flat) \div rows) + 1,
                       r * (Len(flat) \div rows))])

Ones(n) == [q \in 1..n |-> TRUE]

\* the positions (0-based, ascending) that a boolean mask keeps
Compress(mask) == SelectSeq([q \in 1..Len(mask) |-> q - 1], LAMBDA q : mask[q + 1])

\* tensor[mask] with a boolean mask: the shapes must agree
BoolIndex(tensor, mask) ==
    IF Len(mask) # Len(tensor) THEN Raise("IndexError")
    ELSE Ok([r \in 1..Len(Compress(mask)) |-> tensor[Compress(mask)[r] + 1]])

\* tensor[idx] along the first dimension
RowIndex(tensor, idx) ==
    IF idx < Len(tensor) THEN Ok(tensor[idx + 1]) ELSE Raise("IndexError")

\* lines 261-266: self.valid_proj_pixel_mask
valid_proj_pixel_mask_of(g) ==
    IF g.photopeak THEN Ok(g.projections_mask)
    ELSE Reshape(Ones(g.num_projections * g.pixels), MaskRows)

\* lines 267-271: self.valid_obj_voxel_mask
valid_obj_voxel_mask_of(g) ==
    IF g.mask_based_on_attenuation THEN g.attenuation_mask ELSE Ones(g.voxels)

\* _compute_system_matrix_components(idx), lines 303-312: the pixels of
\* the rows and the voxels of the columns of the matrix of view idx
compute_system_matrix_components(built, g, idx) ==
    LET valid_proj_idx == RowIndex(built.valid_proj_pixel_mask, idx)
    IN  IF ~valid_proj_idx.ok THEN valid_proj_idx
        ELSE LET X_proj == BoolIndex(Arange(g.pixels), valid_proj_idx.val)
                 X_obj == BoolIndex(Arange(g.voxels), built.valid_obj_voxel_mask)
             IN  IF ~X_proj.ok THEN X_proj
                 ELSE IF ~X_obj.ok THEN X_obj
                 ELSE Ok([rows |-> X_proj.val, cols |-> X_obj.val])

\* __init__, lines 258-273: the masks, and with store_system_matrix the
\* matrices of all views
RECURSIVE construct_matrices(_, _, _)
construct_matrices(built, g, idx) ==
    IF idx >= g.num_projections THEN Ok(<<>>)
    ELSE IF ~compute_system_matrix_components(built, g, idx).ok
         THEN compute_system_matrix_components(built, g, idx)
         ELSE construct_matrices(built, g, idx + 1)

SPECTCompleteSystemMatrix_init(g) ==
    LET mask == valid_proj_pixel_mask_of(g)
        built == [stage |-> "built",
                  valid_proj_pixel_mask |-> mask.val,
                  valid_obj_voxel_mask |-> valid_obj_voxel_mask_of(g),
                  has_system_matrix_device |-> g.store_system_matrix]
    IN  IF ~mask.ok THEN [stage |-> "raised", err |-> mask.err]
        ELSE IF g.store_system_matrix /\ ~construct_matrices(built, g, 0).ok
        THEN [stage |-> "raised", err |-> construct_matrices(built, g, 0).err]
        ELSE built

\* einsum('ij,j->i', system_matrix_proj_i, object.ravel()[valid_obj_voxel_mask])
einsum_ij_j(idx, sm) ==
    [r \in 1..Len(sm.rows) |->
        {<<idx, sm.rows[r], sm.cols[c]>> : c \in 1..Len(sm.cols)}]

\* row[mask] = values: the kept positions get the values in order
MaskedAssign(row, mask, values) ==
    IF Len(mask) # Len(row) \/ Len(Compress(mask)) # Len(values) THEN Raise("IndexError")
    ELSE Ok([q \in 1..Len(row) |->
                IF mask[q]
                THEN values[CHOOSE r \in 1..Len(values) : Compress(mask)[r] = q - 1]
                ELSE row[q]])

\* lines 353-359 with every pixel of the view written
RECURSIVE complete_forward_pixels_unmasked(_, _, _, _, _)
complete_forward_pixels_unmasked(q, proj, angle_indices, built, g) ==
    IF ~proj.ok \/ q >= Len(angle_indices) THEN proj
    ELSE LET idx == angle_indices[q + 1]
             sm == compute_system_matrix_components(built, g, idx)
         IN  complete_forward_pixels_unmasked(q + 1,
                IF ~sm.ok THEN sm
                ELSE IF ~built.has_system_matrix_device THEN Raise("AttributeError")
                ELSE IF idx >= Len(proj.val) THEN Raise("IndexError")
                ELSE Ok([proj.val EXCEPT ![idx + 1] =
                            [p \in 1..g.pixels |->
                                {<<idx, p - 1, sm.val.cols[c]>> : c \in 1..Len(sm.val.cols)}]]),
                angle_indices, built, g)

\* lines 353-359: for idx in angle_indices: proj[:,idx,mask[idx]] = einsum(...)
RECURSIVE complete_forward_pixels(_, _, _, _, _)
complete_forward_pixels(q, proj, angle_indices, built, g) ==
    IF ~proj.ok \/ q >= Len(angle_indices) THEN proj
    ELSE LET idx == angle_indices[q + 1]
             sm == compute_system_matrix_components(built, g, idx)
         IN  complete_forward_pixels(q + 1,
                IF ~sm.ok THEN sm
                ELSE IF ~built.has_system_matrix_device THEN Raise("AttributeError")
                ELSE IF idx >= Len(proj.val) THEN Raise("IndexError")
                ELSE LET written == MaskedAssign(proj.val[idx + 1],
                                                 built.valid_proj_pixel_mask[idx + 1],
                                                 einsum_ij_j(idx, sm.val))
                     IN  IF ~written.ok THEN written
                         ELSE Ok([proj.val EXCEPT ![idx + 1] = written.val]),
                angle_indices, built, g)

\* forward, lines 345-360
SPECTCompleteSystemMatrix_forward_pixels(built, g, sia, arg) ==
    LET look == IF arg.none THEN Ok(<<>>) ELSE SubsetLookup(sia, arg.i)
    IN  IF ~look.ok THEN look
        ELSE LET N_angles == IF arg.none THEN g.num_projections ELSE Len(look.val)
                 angle_indices == IF arg.none THEN Arange(N_angles) ELSE look.val
             IN  complete_forward_pixels(0,
                     Ok([slot \in 1..N_angles |-> [p \in 1..g.pixels |-> {}]]),
                     angle_indices, built, g)

\* lines 374-379: object[mask] += einsum('ij,i->j', system_matrix_proj_i,
\* proj[0,i][mask[idx]]); a product is <<view, pixel, slot>>
RECURSIVE complete_backward_voxels(_, _, _, _, _)
complete_backward_voxels(i, object, angle_indices, built, g) ==
    IF ~object.ok \/ i >= Len(angle_indices) THEN object
    ELSE LET idx == angle_indices[i + 1]
             sm == compute_system_matrix_components(built, g, idx)
             proj_i == IF ~sm.ok THEN sm
                       ELSE BoolIndex(Arange(g.pixels), built.valid_proj_pixel_mask[idx + 1])
         IN  complete_backward_voxels(i + 1,
                IF ~sm.ok THEN sm
                ELSE IF ~proj_i.ok THEN proj_i
                ELSE IF ~built.has_system_matrix_device THEN Raise("AttributeError")
                ELSE Ok([u \in 1..g.voxels |->
                            IF built.valid_obj_voxel_mask[u]
                            THEN object.val[u]
                                 \cup {<<idx, proj_i.val[r], i>> : r \in 1..Len(proj_i.val)}
                            ELSE object.val[u]]),
                angle_indices, built, g)

\* backward, lines 362-380
SPECTCompleteSystemMatrix_backward_voxels(built, g, sia, arg) ==
    LET look == IF arg.none THEN Ok(<<>>) ELSE SubsetLookup(sia, arg.i)
    IN  IF ~look.ok THEN look
        ELSE LET N_angles == IF arg.none THEN g.num_projections ELSE Len(look.val)
                 angle_indices == IF arg.none THEN Arange(N_angles) ELSE look.val
             IN  complete_backward_voxels(0, Ok([u \in 1..g.voxels |-> {}]),
                                          angle_indices, built, g)

BoolRows(n, len) == [1..n -> [1..len -> BOOLEAN]]

\* the arguments of the constructor: with a photopeak (the mask is what
\* _compute_projections_mask gives, one row per view) or without one
MaskArguments ==
    {[num_projections |-> N, pixels |-> P, voxels |-> V, photopeak |-> TRUE,
      projections_mask |-> pm, mask_based_on_attenuation |-> mba,
      attenuation_mask |-> am, store_system_matrix |-> st] :
        N \in 1..MaxMaskedViews, P \in {MaxPixels}, V \in {MaxVoxels},
        pm \in UNION {BoolRows(n, MaxPixels) : n \in 1..MaxMaskedViews},
        mba \in BOOLEAN, am \in [1..MaxVoxels -> BOOLEAN], st \in {TRUE}}
    \cup
    {[num_projections |-> N, pixels |-> P, voxels |-> V, photopeak |-> FALSE,
      projections_mask |-> <<>>, mask_based_on_attenuation |-> FALSE,
      attenuation_mask |-> Ones(V), store_system_matrix |-> st] :
        N \in 1..MaxMaskViews, P \in 1..MaxPixels, V \in {MaxVoxels}, st \in BOOLEAN}

WellFormed(g) ==
    g.photopeak => Len(g.projections_mask) = g.num_projections

InitMask ==
    /\ variant = "complete"
    /\ n_parallel = 1
    /\ obj2obj_transforms = <<>>
    /\ proj2proj_transforms = <<>>
    /\ last_n_subsets = 0
    /\ prev_n_subsets = 0
    /\ subset_indices_array = [set |-> FALSE, val |-> <<>>]
    /\ ret = Idle
    /\ NoLikelihood
    /\ NoSolver
    /\ given \in {g \in MaskArguments : WellFormed(g)}
    /\ num_projections = given.num_projections
    /\ returned = NotCalled

\* SPECTCompleteSystemMatrix(...)
ConstructComplete ==
    /\ returned.stage = "none"
    /\ returned' = SPECTCompleteSystemMatrix_init(given)
    /\ UNCHANGED <<given, config, partition, likelihood_state, solver, ret>>

\* set_n_subsets(k) on the instance
PartitionComplete ==
    /\ returned.stage = "built"
    /\ ~subset_indices_array.set
    /\ \E k \in 1..(num_projections + 1) :
          /\ k <= MaxSubsets
          /\ subset_indices_array' = set_n_subsets(num_projections, k)
          /\ last_n_subsets' = k
    /\ UNCHANGED <<function_call, config, prev_n_subsets, likelihood_state, solver, ret>>

\* forward(object, subset_idx) on the instance
ForwardComplete ==
    /\ returned.stage = "built"
    /\ ret.op = "idle"
    /\ \E arg \in {NoneArg} \cup {IntArg(m) : m \in 0..(last_n_subsets - 1)} :
          ret' = Call("forward", arg, 1, NoFlag,
                      SPECTCompleteSystemMatrix_forward_pixels(returned, given,
                                                               subset_indices_array, arg))
    /\ UNCHANGED <<function_call, config, partition, likelihood_state, solver>>

\* backward(proj, subset_idx) on the instance
BackwardComplete ==
    /\ returned.stage = "built"
    /\ ret.op = "idle"
    /\ \E arg \in {NoneArg} \cup {IntArg(m) : m \in 0..(last_n_subsets - 1)} :
          ret' = Call("backward", arg, 1, NoFlag,
                      SPECTCompleteSystemMatrix_backward_voxels(returned, given,
                                                                subset_indices_array, arg))
    /\ UNCHANGED <<function_call, config, partition, likelihood_state, solver>>

NextMask ==
    \/ ConstructComplete
    \/ PartitionComplete
    \/ ForwardComplete
    \/ BackwardComplete

SpecMask == InitMask /\ [][NextMask]_vars


\* ---- SPECTCompleteSystemMatrix: the masks ----

\* a forward or backward call on the built instance has returned an output
ReturnedOutput(op) ==
    /\ returned.stage = "built"
    /\ ret.op = op
    /\ ret.res.ok

\* C23: in the ray-based variant masked regions contribute nothing: the
\* output of forward is 0 at every projection pixel that is not in the
\* valid-pixel mask of its view and is made of object voxels of the
\* valid-voxel mask only; the output of backward is 0 at every voxel outside
\* the valid-voxel mask and is made of valid pixels only
C23_MaskedRegionsContributeNothing ==
    /\ ReturnedOutput("forward") =>
          \A j \in DOMAIN ret.res.val : \A p \in DOMAIN ret.res.val[j] :
             LET view == RequestedViews(ret.arg)[j]
             IN  /\ ~returned.valid_proj_pixel_mask[view + 1][p] => ret.res.val[j][p] = {}
                 /\ \A t \in ret.res.val[j][p] :
                       /\ t[1] = view
                       /\ t[2] = p - 1
                       /\ returned.valid_obj_voxel_mask[t[3] + 1]
    /\ ReturnedOutput("backward") =>
          \A u \in DOMAIN ret.res.val :
             /\ ~returned.valid_obj_voxel_mask[u] => ret.res.val[u] = {}
             /\ \A t \in ret.res.val[u] :
                   /\ t[1] = RequestedViews(ret.arg)[t[3] + 1]
                   /\ returned.valid_proj_pixel_mask[t[1] + 1][t[2] + 1]

\* forward has returned an output of two views with a pixel that is masked
\* and one that is not, from an object with a voxel that is masked and one
\* that is not
C23_Witness ==
    /\ ReturnedOutput("forward")
    /\ Len(ret.res.val) = 2
    /\ \E p, q \in DOMAIN ret.res.val[2] :
          /\ ~returned.valid_proj_pixel_mask[2][p]
          /\ ret.res.val[2][p] = {}
          /\ ret.res.val[2][q] # {}
    /\ \E u, w \in DOMAIN returned.valid_obj_voxel_mask :
          returned.valid_obj_voxel_mask[u] /\ ~returned.valid_obj_voxel_mask[w]

\* backward has returned a volume with a voxel that is masked and one that
\* is not, from projections with masked pixels
C23_WitnessBackward ==
    /\ ReturnedOutput("backward")
    /\ \E u, w \in DOMAIN ret.res.val : ret.res.val[u] = {} /\ ret.res.val[w] # {}
    /\ \E v \in DOMAIN returned.valid_proj_pixel_mask :
          \E p, q \in DOMAIN returned.valid_proj_pixel_mask[v] :
             returned.valid_proj_pixel_mask[v][p] /\ ~returned.valid_proj_pixel_mask[v][q]

\* C28: a SPECTCompleteSystemMatrix constructed without a photopeak has a
\* valid-pixel mask of exactly one row per projection view, every row
\* marking every pixel of its view as valid, for every number of views, so
\* that indexing the mask by any view index 0..num_projections-1 is in range
\* and selects the pixels of that view
C28_MaskWithoutPhotopeak ==
    (returned.stage # "none" /\ ~given.photopeak) =>
        /\ returned.stage = "built"
        /\ Len(returned.valid_proj_pixel_mask) = given.num_projections
        /\ \A idx \in 0..(given.num_projections - 1) :
              /\ RowIndex(returned.valid_proj_pixel_mask, idx) = Ok(Ones(given.pixels))
              /\ BoolIndex(Arange(given.pixels),
                           RowIndex(returned.valid_proj_pixel_mask, idx).val)
                     = Ok(Arange(given.pixels))

\* the mask is as C28 says when there are 32 views
C28_HoldsFor32Views ==
    given.num_projections = MaskRows => C28_MaskWithoutPhotopeak

\* with a number of views that is not 32 the constructor raises or builds a
\* mask of 32 rows that are not the views' rows
C28_FailsForOtherNumbersOfViews ==
    (returned.stage # "none" /\ ~given.photopeak /\ given.num_projections # MaskRows) =>
        \/ returned.stage = "raised" /\ returned.err \in {"RuntimeError", "IndexError"}
        \/ /\ returned.stage = "built"
           /\ ~given.store_system_matrix
           /\ Len(returned.valid_proj_pixel_mask) = MaskRows
           /\ Len(returned.valid_proj_pixel_mask[1]) # given.pixels

\* such an instance has been built (16 views of 2 pixels, nothing stored)
\* and its forward has raised
C28_ForwardRaises ==
    /\ returned.stage = "built"
    /\ ~given.photopeak
    /\ given.num_projections = 16
    /\ ret.op = "forward"
    /\ ret.res = Raise("IndexError")

\* without a photopeak and with 32 views, forward has returned an output
C28_ForwardReturnsFor32Views ==
    /\ ReturnedOutput("forward")
    /\ ~given.photopeak
    /\ given.num_projections = MaskRows
    /\ \A j \in DOMAIN ret.res.val : \A p \in DOMAIN ret.res.val[j] : ret.res.val[j][p] # {}

----------------------------------------------------------------------------
\* io/SPECT/dicom.py: functions of a DICOM dataset, modelled as function calls
\* on `given` that leave their outcome in `returned`

\* no projector is involved in a call of a module-level function
NoProjector ==
    /\ variant = "complete"
    /\ num_projections = 1
    /\ n_parallel = 1
    /\ obj2obj_transforms = <<>>
    /\ proj2proj_transforms = <<>>
    /\ last_n_subsets = 0
    /\ prev_n_subsets = 0
    /\ subset_indices_array = [set |-> FALSE, val |-> <<>>]
    /\ ret = Idle
    /\ NoLikelihood
    /\ NoSolver

MaxDetectors == 2
MaxFramesInRotation == 2
MaxEnergyWindows == 2
MaxTimeSlots == 2

\* angles are whole degrees
FullTurn == 360
HalfTurn == 180
MillimetresPerCentimetre == 10

StartAngles == {0, 270}
AngularSteps == {90, 180}
RotationDirections == {"CW", "CC", "CCW"}

\* an attribute that the dataset does not have
Absent == [present |-> FALSE]
Attribute(value) == [present |-> TRUE, value |-> value]

\* the frames of a tomographic acquisition in the order of the frame increment
\* pointer: energy window, detector, time slot, angular view
FrameOrder(D, n, E, T) == [f \in 1..(E * D * T * n) |->
    [energy_window |-> ((f - 1) \div (D * T * n)) + 1,
     detector      |-> (((f - 1) \div (T * n)) % D) + 1,
     time_slot     |-> (((f - 1) \div n) % T) + 1,
     angular_view  |-> ((f - 1) % n) + 1]]

\* RadialPosition of detector d: one value in millimetres for each angular view
RadialPositionOf(d, n) == [k \in 1..n |-> MillimetresPerCentimetre * (10 * d + k)]

\* the value of an attribute as pydicom hands it out: a number when it has one
\* value, a sequence when it has several
MultiValue(values) == [multi |-> Len(values) > 1, values |-> values]

\* how the dataset stores the radial positions: one value per view in the
\* detector information, a single value there, or the rotation information only
RadialLayouts == {"per_view", "single", "rotation"}

\* a pydicom Dataset of D detectors, n views in the rotation, E energy windows
\* and T time slots (TimeSlotVector is absent from an ungated acquisition)
Dataset(D, n, E, T, start, step, direction, own_start, layout) ==
    LET order == FrameOrder(D, n, E, T)
    IN  [pixel_array |-> [f \in DOMAIN order |-> f],
         EnergyWindowVector |-> [f \in DOMAIN order |-> order[f].energy_window],
         DetectorVector |-> [f \in DOMAIN order |-> order[f].detector],
         TimeSlotVector |-> IF T = 1 THEN Absent
                            ELSE Attribute([f \in DOMAIN order |-> order[f].time_slot]),
         AngularViewVector |-> [f \in DOMAIN order |-> order[f].angular_view],
         RotationInformationSequence |->
             <<[NumberOfFramesInRotation |-> n, AngularStep |-> step,
                StartAngle |-> start[1], RotationDirection |-> direction,
                RadialPosition |-> MultiValue(RadialPositionOf(1, n))]>>,
         DetectorInformationSequence |-> [d \in 1..D |->
             [StartAngle |-> IF own_start THEN Attribute(start[d]) ELSE Absent,
              RadialPosition |->
                  IF layout = "per_view"
                  THEN Attribute(MultiValue(RadialPositionOf(d, n)))
                  ELSE IF layout = "single"
                  THEN Attribute(MultiValue(<<RadialPositionOf(d, n)[1]>>))
                  ELSE Absent]]]

Datasets ==
    {Dataset(D, n, E, T, start, step, direction, own_start, layout) :
        D \in 1..MaxDetectors, n \in 1..MaxFramesInRotation, E \in 1..MaxEnergyWindows,
        T \in 1..MaxTimeSlots, start \in [1..MaxDetectors -> StartAngles],
        step \in AngularSteps, direction \in RotationDirections,
        own_start \in BOOLEAN, layout \in RadialLayouts}

\* np.unique: the values of a vector in increasing order
RECURSIVE SortedValues(_)
SortedValues(values) ==
    IF values = {} THEN <<>>
    ELSE LET least == CHOOSE x \in values : \A y \in values : x <= y
         IN  <<least>> \o SortedValues(values \ {least})

Unique(vector) == SortedValues({vector[f] : f \in DOMAIN vector})

\* pixel_array[mask]: the entries of a sequence at which the mask holds, in order
RECURSIVE Masked(_, _)
Masked(array, mask) ==
    IF array = <<>> THEN <<>>
    ELSE (IF mask[1] THEN <<array[1]>> ELSE <<>>) \o Masked(Tail(array), Tail(mask))

RECURSIVE Concatenate(_)
Concatenate(parts) ==
    IF parts = <<>> THEN <<>> ELSE parts[1] \o Concatenate(Tail(parts))

\* a Sequence of pydicom (a multi-valued attribute) as opposed to a number
IsSequence(value) == value.multi

\* lines 64-78: the angles of one detector
DetectorAngles(ds, detector) ==
    LET rotation == ds.RotationInformationSequence[1]
        n_angles == rotation.NumberOfFramesInRotation
        delta_angle == rotation.AngularStep
        own == IF detector \in DOMAIN ds.DetectorInformationSequence
               THEN ds.DetectorInformationSequence[detector].StartAngle
               ELSE Absent
        start_angle == IF own.present THEN own.value ELSE rotation.StartAngle
    IN  IF rotation.RotationDirection \in {"CC", "CCW"}
        THEN [k \in 1..n_angles |-> start_angle + delta_angle * (k - 1)]
        ELSE [k \in 1..n_angles |-> start_angle - delta_angle * (k - 1)]

\* lines 79-90: the radial positions of one detector, or the exception raised
DetectorRadii(ds, detector) ==
    LET n_angles == ds.RotationInformationSequence[1].NumberOfFramesInRotation
        Widen(value) == IF IsSequence(value) THEN value.values
                        ELSE [k \in 1..n_angles |-> value.values[1]]
    IN  IF detector \notin DOMAIN ds.DetectorInformationSequence
        THEN Raise("IndexError")
        ELSE IF ds.DetectorInformationSequence[detector].RadialPosition.present
        THEN Ok(Widen(ds.DetectorInformationSequence[detector].RadialPosition.value))
        ELSE IF detector \notin DOMAIN ds.RotationInformationSequence
        THEN Raise("IndexError")
        ELSE Ok(Widen(ds.RotationInformationSequence[detector].RadialPosition))

\* np.argsort: position r holds the index of the r-th smallest entry; entries
\* that are equal come in increasing or in decreasing order of their index
ArgSort(values, ties) ==
    LET Before(i, j) == \/ values[i] < values[j]
                        \/ values[i] = values[j] /\ i # j /\ (i < j) = (ties = "kept")
    IN  [r \in DOMAIN values |->
            CHOOSE i \in DOMAIN values :
                Cardinality({j \in DOMAIN values : Before(j, i)}) = r - 1]

TieOrders == {"kept", "reversed"}

\* array[idxs] along one axis, or IndexError
Take(array, idxs) ==
    IF \E r \in DOMAIN idxs : idxs[r] \notin DOMAIN array
    THEN Raise("IndexError")
    ELSE Ok([r \in DOMAIN idxs |-> array[idxs[r]]])

\* projections[:, :, idxs, ::-1] transposed over its last two axes
FrameReturned(frame) == [frame |-> frame, flipped |-> TRUE, transposed |-> TRUE]

\* parse_projection_dataset with the permutation that sorts by angle applied to
\* the angles alone
parse_projection_dataset_angles_only(ds, ties) ==
    LET time_slot_vector ==
            IF ds.TimeSlotVector.present THEN ds.TimeSlotVector.value
            ELSE [f \in DOMAIN ds.DetectorVector |-> 1]
        detectors == Unique(ds.DetectorVector)
        radii_of == [i \in DOMAIN detectors |-> DetectorRadii(ds, detectors[i])]
        unsorted == Concatenate([i \in DOMAIN detectors |->
                                    DetectorAngles(ds, detectors[i])])
        angles == [i \in DOMAIN unsorted |-> (unsorted[i] + HalfTurn) % FullTurn]
        sorted_idxs == ArgSort(angles, ties)
    IN  IF \E i \in DOMAIN radii_of : ~radii_of[i].ok
        THEN [stage |-> "raised", err |-> "IndexError"]
        ELSE LET radii == Concatenate([i \in DOMAIN radii_of |-> radii_of[i].val])
                 windows == Unique(ds.EnergyWindowVector)
                 slots == Unique(time_slot_vector)
                 selected == [e \in DOMAIN windows |-> [t \in DOMAIN slots |->
                     Masked(ds.pixel_array, [f \in DOMAIN ds.pixel_array |->
                         /\ time_slot_vector[f] = slots[t]
                         /\ ds.EnergyWindowVector[f] = windows[e]])]]
             IN  [stage |-> "returned",
                  projections |-> [e \in DOMAIN windows |-> [t \in DOMAIN slots |->
                      [i \in DOMAIN selected[e][t] |->
                          FrameReturned(selected[e][t][i])]]],
                  angles |-> [r \in DOMAIN sorted_idxs |-> angles[sorted_idxs[r]]],
                  radii |-> [r \in DOMAIN radii |-> radii[r] \div MillimetresPerCentimetre],
                  flags |-> [multi_energy_window |-> Len(windows) > 1,
                             multi_time_slot |-> Len(slots) > 1]]

\* parse_projection_dataset(ds)
parse_projection_dataset(ds, ties) ==
    LET time_slot_vector ==
            IF ds.TimeSlotVector.present THEN ds.TimeSlotVector.value
            ELSE [f \in DOMAIN ds.DetectorVector |-> 1]
        detectors == Unique(ds.DetectorVector)
        radii_of == [i \in DOMAIN detectors |-> DetectorRadii(ds, detectors[i])]
        unsorted == Concatenate([i \in DOMAIN detectors |->
                                    DetectorAngles(ds, detectors[i])])
        angles == [i \in DOMAIN unsorted |-> (unsorted[i] + HalfTurn) % FullTurn]
        sorted_idxs == ArgSort(angles, ties)
    IN  IF \E i \in DOMAIN radii_of : ~radii_of[i].ok
        THEN [stage |-> "raised", err |-> "IndexError"]
        ELSE LET radii == Concatenate([i \in DOMAIN radii_of |-> radii_of[i].val])
                 windows == Unique(ds.EnergyWindowVector)
                 slots == Unique(time_slot_vector)
                 selected == [e \in DOMAIN windows |-> [t \in DOMAIN slots |->
                     Masked(ds.pixel_array, [f \in DOMAIN ds.pixel_array |->
                         /\ time_slot_vector[f] = slots[t]
                         /\ ds.EnergyWindowVector[f] = windows[e]])]]
                 taken == [e \in DOMAIN windows |-> [t \in DOMAIN slots |->
                              Take(selected[e][t], sorted_idxs)]]
             IN  IF \/ \E e \in DOMAIN windows : \E t \in DOMAIN slots : ~taken[e][t].ok
                    \/ ~Take(radii, sorted_idxs).ok
                 THEN [stage |-> "raised", err |-> "IndexError"]
                 ELSE [stage |-> "returned",
                       projections |-> [e \in DOMAIN windows |-> [t \in DOMAIN slots |->
                           [i \in DOMAIN taken[e][t].val |->
                               FrameReturned(taken[e][t].val[i])]]],
                       angles |-> Take(angles, sorted_idxs).val,
                       radii |-> [r \in DOMAIN sorted_idxs |->
                                     radii[sorted_idxs[r]] \div MillimetresPerCentimetre],
                       flags |-> [multi_energy_window |-> Len(windows) > 1,
                                  multi_time_slot |-> Len(slots) > 1]]

\* get_metadata, lines 130-134: the shape and the geometry that SPECTProjMeta
\* is built from
get_metadata(parsed) ==
    [num_projections |-> Len(parsed.projections[1][1]),
     angles |-> parsed.angles,
     radii |-> parsed.radii]

InitParse ==
    /\ NoProjector
    /\ given \in Datasets
    /\ returned = NotCalled

ParseProjectionDataset ==
    /\ returned.stage = "none"
    /\ \E ties \in TieOrders : returned' = parse_projection_dataset(given, ties)
    /\ UNCHANGED <<given, config, partition, likelihood_state, solver, ret>>

GetMetadata ==
    /\ returned.stage = "returned"
    /\ returned' = [stage |-> "metadata", parsed |-> returned,
                    meta |-> get_metadata(returned)]
    /\ UNCHANGED <<given, config, partition, likelihood_state, solver, ret>>

NextParse ==
    \/ ParseProjectionDataset
    \/ GetMetadata

SpecParse == InitParse /\ [][NextParse]_vars

\* the frame of the file that detector d acquired at angular view k in energy
\* window e and time slot t
Acquired(ds, e, t, d, k) ==
    CHOOSE f \in DOMAIN ds.pixel_array :
        /\ ds.EnergyWindowVector[f] = e
        /\ ds.DetectorVector[f] = d
        /\ ds.AngularViewVector[f] = k
        /\ (ds.TimeSlotVector.present => ds.TimeSlotVector.value[f] = t)

\* the detector angle and the radius in centimetres of view k of detector d
AngleAcquired(ds, d, k) == (DetectorAngles(ds, d)[k] + HalfTurn) % FullTurn
RadiusAcquired(ds, d, k) ==
    DetectorRadii(ds, d).val[k] \div MillimetresPerCentimetre

Acquisitions(ds) ==
    {dk \in (1..MaxDetectors) \X (1..MaxFramesInRotation) :
        /\ dk[1] \in DOMAIN ds.DetectorInformationSequence
        /\ dk[2] <= ds.RotationInformationSequence[1].NumberOfFramesInRotation}

\* the detector and the angular view that acquired the frame returned at
\* position i
ViewAt(ds, out, i) ==
    LET f == out.projections[1][1][i].frame
    IN  <<ds.DetectorVector[f], ds.AngularViewVector[f]>>

\* position i of what was returned is view dk[2] of detector dk[1]
ReturnedAt(ds, out, i, dk) ==
    /\ out.angles[i] = AngleAcquired(ds, dk[1], dk[2])
    /\ out.radii[i] = RadiusAcquired(ds, dk[1], dk[2])
    /\ \A e \in DOMAIN out.projections : \A t \in DOMAIN out.projections[e] :
           out.projections[e][t][i].frame = Acquired(ds, e, t, dk[1], dk[2])

\* C24: parse_projection_dataset returns the angles, converted to
\* (angle + 180) mod 360, in non-decreasing order; the returned positions are
\* the acquired views, each once, and position i holds the angle, the radius
\* and the frames of one and the same view; angles, radii and the frames of
\* every energy window and time slot have the same length.
C24_SortedAndPaired ==
    returned.stage = "returned" =>
        /\ \A i, j \in DOMAIN returned.angles : i <= j => returned.angles[i] <= returned.angles[j]
        /\ \A i \in DOMAIN returned.angles : returned.angles[i] \in 0..(FullTurn - 1)
        /\ Len(returned.angles) = Len(returned.radii)
        /\ \A e \in DOMAIN returned.projections : \A t \in DOMAIN returned.projections[e] :
               Len(returned.projections[e][t]) = Len(returned.angles)
        /\ \A i \in DOMAIN returned.angles :
               ReturnedAt(given, returned, i, ViewAt(given, returned, i))
        /\ \A i, j \in DOMAIN returned.angles :
               ViewAt(given, returned, i) = ViewAt(given, returned, j) => i = j
        /\ \A dk \in Acquisitions(given) :
               \E i \in DOMAIN returned.angles : ViewAt(given, returned, i) = dk

\* the metadata built from the parsed dataset has one angle and one radius for
\* each of its num_projections views
C24_MetadataLengths ==
    returned.stage = "metadata" =>
        /\ Len(returned.meta.angles) = returned.meta.num_projections
        /\ Len(returned.meta.radii) = returned.meta.num_projections
        /\ returned.meta.angles = returned.parsed.angles

\* two detectors whose views interleave once sorted: the permutation is not the
\* identity, and two views share an angle
C24_Witness ==
    /\ returned.stage = "returned"
    /\ Len(returned.angles) = 4
    /\ returned.projections[1][1][1].frame > returned.projections[1][1][2].frame
    /\ \E i \in 1..3 : returned.angles[i] = returned.angles[i + 1]
    /\ returned.radii[1] # returned.radii[2]
    /\ Len(returned.projections) = 2

\* a dataset whose radial positions are in the rotation information only
\* cannot be parsed for its second detector
C24_RaisesWithoutDetectorRadii ==
    /\ returned.stage = "raised"
    /\ Len(given.DetectorInformationSequence) = 2

----------------------------------------------------------------------------
\* get_psfmeta_from_scanner_params (io/SPECT/dicom.py): strings are sequences
\* of characters, the collimator file a sequence of lines

MaxLines == 2

Letters == {"A", "B"}
Digits == {"1", "2"}
Space == " "

\* the lines of data/collim.col: a collimator code followed by numeric columns,
\* of which column 1 is the hole diameter and column 3 the hole length
CollimatorLine(code, hole_diameter, hole_length) ==
    code \o <<Space>> \o <<hole_diameter>> \o <<Space, "1", Space>> \o <<hole_length>>

CollimatorCodes == {<<"A">>, <<"A", "B">>, <<"B", "1">>}

CollimatorLines ==
    {CollimatorLine(code, d, l) : code \in CollimatorCodes, d \in Digits, l \in Digits}

\* f.readlines() of a file of at most MaxLines lines
CollimatorFiles == UNION {[1..n -> CollimatorLines] : n \in 0..MaxLines}

\* the collimator_name argument
CollimatorNames ==
    {<<a>> : a \in Letters \cup Digits}
        \cup {<<a, b>> : a \in Letters \cup Digits, b \in Letters \cup Digits}

\* np.char.find(text, name) >= 0
Found(text, name) ==
    \E o \in 1..(Len(text) - Len(name) + 1) : SubSeq(text, o, o + Len(name) - 1) = name

\* str.split(): the fields between runs of whitespace
RECURSIVE SplitFrom(_, _)
SplitFrom(text, field) ==
    IF text = <<>> THEN (IF field = <<>> THEN <<>> ELSE <<field>>)
    ELSE IF Head(text) = Space
         THEN (IF field = <<>> THEN <<>> ELSE <<field>>) \o SplitFrom(Tail(text), <<>>)
         ELSE SplitFrom(Tail(text), Append(field, Head(text)))

Split(text) == SplitFrom(text, <<>>)

\* float(field) of a field of digits, or ValueError
RECURSIVE DigitsValue(_, _)
DigitsValue(field, sofar) ==
    IF field = <<>> THEN sofar
    ELSE DigitsValue(Tail(field),
                     10 * sofar + (IF Head(field) = "1" THEN 1 ELSE 2))

Float(field) ==
    IF field # <<>> /\ \A i \in DOMAIN field : field[i] \in Digits
    THEN Ok(DigitsValue(field, 0))
    ELSE Raise("ValueError")

\* lines 296-297: the lines that contain collimator_name, in file order
Matching(collimator_data, collimator_name) ==
    Masked(collimator_data,
           [i \in DOMAIN collimator_data |-> Found(collimator_data[i], collimator_name)])

\* the rest of the function once `line` is bound (lines 303-318)
PSFMetaFromLine(line) ==
    LET fields == Split(line)
    IN  IF Len(fields) < 4 THEN [stage |-> "raised", err |-> "IndexError"]
        ELSE LET hole_length == Float(fields[4])
                 hole_diameter == Float(fields[2])
             IN  IF ~hole_length.ok \/ ~hole_diameter.ok
                 THEN [stage |-> "raised", err |-> "ValueError"]
                 ELSE [stage |-> "returned", line |-> line,
                       hole_length |-> hole_length.val,
                       hole_diameter |-> hole_diameter.val]

\* the exception that the except block builds
CannotFind == [stage |-> "raised", err |-> "Exception: Cannot find data for collimator name"]

\* get_psfmeta_from_scanner_params(collimator_name, ...): the except block
\* builds an Exception and drops it, and line 303 reads the unbound `line`
get_psfmeta_from_scanner_params(collimator_data, collimator_name) ==
    LET matching == Matching(collimator_data, collimator_name)
    IN  IF matching = <<>>
        THEN [stage |-> "raised", err |-> "UnboundLocalError: line"]
        ELSE PSFMetaFromLine(matching[1])

InitCollimator ==
    /\ NoProjector
    /\ given \in [collimator_data : CollimatorFiles, collimator_name : CollimatorNames]
    /\ returned = NotCalled

GetPSFMeta ==
    /\ returned.stage = "none"
    /\ returned' = get_psfmeta_from_scanner_params(given.collimator_data,
                                                   given.collimator_name)
    /\ UNCHANGED <<given, config, partition, likelihood_state, solver, ret>>

NextCollimator == GetPSFMeta

SpecCollimator == InitCollimator /\ [][NextCollimator]_vars

\* the collimator name occurs in no line of the data file
InNoLine ==
    \A i \in DOMAIN given.collimator_data :
        ~Found(given.collimator_data[i], given.collimator_name)

\* C30: called with a collimator name that occurs in no line of the data file,
\* get_psfmeta_from_scanner_params fails with the exception 'Cannot find data
\* for collimator name ...', parses no line and returns no PSF metadata.
C30_UnknownCollimatorRaisesCannotFind ==
    (returned.stage # "none" /\ InNoLine) => returned = CannotFind

\* what holds of the claim: no PSF metadata is returned
C30_UnknownCollimatorReturnsNothing ==
    (returned.stage # "none" /\ InNoLine) => returned.stage = "raised"

\* the call fails on the unbound local variable instead
C30_FailsOnUnboundLine ==
    /\ InNoLine
    /\ Len(given.collimator_data) >= 1
    /\ returned = [stage |-> "raised", err |-> "UnboundLocalError: line"]

\* a name that occurs in a line gives the columns of the first such line
C30_KnownCollimatorReturns ==
    /\ returned.stage = "returned"
    /\ Len(given.collimator_data) = 2
    /\ returned.line = given.collimator_data[2]

----------------------------------------------------------------------------
\* stitch_multibed (io/SPECT/dicom.py) on reconstructions of original_z_height
\* slices; slices and beds are counted from 0 as in the code

MaxBeds == 3
MaxHeight == 5

\* PixelSpacing[1] in millimetres
PixelSpacings == {1, 2}

\* round(x) of Python and np.round(x) for x = numerator / 2: halves go to the
\* even neighbour
RoundHalves(numerator) ==
    IF numerator % 2 = 0 THEN numerator \div 2
    ELSE LET below == (numerator - 1) \div 2
         IN  IF below % 2 = 0 THEN below ELSE below + 1

\* np.round((zs - zs[0]) / spacing).astype(int) for a spacing of 1 or 2
RoundedQuotient(difference, spacing) ==
    IF spacing = 1 THEN difference ELSE RoundHalves(difference)

\* the indices that tensor[..., start:stop] selects on an axis of length len
SliceIndices(start, stop, len) ==
    LET Bound(x) == IF x < 0 THEN (IF x + len < 0 THEN 0 ELSE x + len)
                    ELSE (IF x > len THEN len ELSE x)
    IN  {s \in 0..(len - 1) : Bound(start) <= s /\ s < Bound(stop)}

\* the arguments: the z-position of each file of files_NM, the common pixel
\* spacing and height, and the blank range of the first file
StitchArguments ==
    {g \in [zs : UNION {[1..n -> 0..(MaxHeight + 1)] : n \in 1..MaxBeds},
            PixelSpacing : PixelSpacings,
            original_z_height : {MaxHeight},
            blank_below : {0, 1},
            blank_above : {MaxHeight},
            return_stitching_weights : BOOLEAN] :
        g.blank_below + 1 < g.blank_above - 1}

\* lines 529-539: the beds in the order of their z-position, and their offsets
\* in slices from the lowest bed
SortedOffsets(g, order) ==
    [r \in DOMAIN order |->
        RoundedQuotient(g.zs[order[r]] - g.zs[order[1]], g.PixelSpacing)]

\* lines 553-567: the stitching weights of the bed at position r of the sorted
\* order
stitching_weights(g, zs, r) ==
    LET len == g.original_z_height
        blank_below == g.blank_below + 1
        blank_above == g.blank_above - 1
        ones == SliceIndices(blank_below, blank_above, len)
        overlap_lower(i) == zs[i + 1] - zs[i] + blank_below
        delta(i) == blank_above - overlap_lower(i)
        half(i) == RoundHalves(delta(i))
        from_above == IF r = Len(zs) THEN {}
                      ELSE SliceIndices(overlap_lower(r) + half(r),
                                        overlap_lower(r) + delta(r), len)
        from_below == IF r = 1 THEN {}
                      ELSE SliceIndices(blank_below, blank_below + half(r - 1), len)
    IN  [s \in 0..(len - 1) |->
            IF s \in ones /\ s \notin from_above /\ s \notin from_below THEN 1 ELSE 0]

\* the inverse of a permutation: np.argsort(order)
Inverse(order) == [j \in DOMAIN order |-> CHOOSE r \in DOMAIN order : order[r] = j]

\* stitch_multibed(recons, files_NM, return_stitching_weights); slice z of
\* recon_aligned is the set of <<file, slice>> of recons that were added to it
\* with weight 1
stitch_multibed(g, ties) ==
    LET order == ArgSort(g.zs, ties)
        zs == SortedOffsets(g, order)
        new_z_height == zs[Len(zs)] + g.original_z_height
        weights == [r \in DOMAIN zs |-> stitching_weights(g, zs, r)]
    IN  IF g.return_stitching_weights
        THEN [stage |-> "weights",
              stitching_weights |-> [j \in DOMAIN order |-> weights[Inverse(order)[j]]],
              zs |-> [j \in DOMAIN order |-> zs[Inverse(order)[j]]]]
        ELSE [stage |-> "stitched",
              recon_aligned |-> [z \in 0..(new_z_height - 1) |->
                  {<<order[r], z - zs[r]>> : r \in
                      {q \in DOMAIN zs :
                          /\ z - zs[q] \in 0..(g.original_z_height - 1)
                          /\ weights[q][z - zs[q]] = 1}}]]

InitStitch ==
    /\ NoProjector
    /\ given \in StitchArguments
    /\ returned = NotCalled

StitchMultibed ==
    /\ returned.stage = "none"
    /\ \E ties \in TieOrders : returned' = stitch_multibed(given, ties)
    /\ UNCHANGED <<given, config, partition, likelihood_state, solver, ret>>

NextStitch == StitchMultibed

SpecStitch == InitStitch /\ [][NextStitch]_vars

\* the offset in slices of file j from the lowest bed
OffsetOf(j) ==
    LET lowest == CHOOSE i \in DOMAIN given.zs : \A k \in DOMAIN given.zs : given.zs[i] <= given.zs[k]
    IN  RoundedQuotient(given.zs[j] - given.zs[lowest], given.PixelSpacing)

\* slice z of the stitched volume is in the non-blank range of file j
NonBlankIn(j, z) ==
    /\ given.blank_below + 1 <= z - OffsetOf(j)
    /\ z - OffsetOf(j) < given.blank_above - 1

\* the files whose weight on slice z of the stitched volume is 1
TakenFrom(z) ==
    IF returned.stage = "stitched"
    THEN {c[1] : c \in returned.recon_aligned[z]}
    ELSE {j \in DOMAIN given.zs :
            /\ z - returned.zs[j] \in 0..(given.original_z_height - 1)
            /\ returned.stitching_weights[j][z - returned.zs[j]] = 1}

StitchedSlices ==
    LET highest == CHOOSE i \in DOMAIN given.zs : \A k \in DOMAIN given.zs : given.zs[i] >= given.zs[k]
    IN  0..(OffsetOf(highest) + given.original_z_height - 1)

\* C29: every slice of the stitched volume in the non-blank range of at least
\* one bed has total stitching weight 1, taken from one bed in whose non-blank
\* range it lies; every other slice has weight 0; with
\* return_stitching_weights the z-offsets are those of the files in the order
\* of files_NM.
C29_EverySliceFromOneBed ==
    returned.stage # "none" =>
        /\ \A z \in StitchedSlices :
              IF \E j \in DOMAIN given.zs : NonBlankIn(j, z)
              THEN \E j \in DOMAIN given.zs : TakenFrom(z) = {j} /\ NonBlankIn(j, z)
              ELSE TakenFrom(z) = {}
        /\ returned.stage = "weights" =>
              \A j \in DOMAIN given.zs : returned.zs[j] = OffsetOf(j)

\* consecutive beds whose non-blank ranges overlap, or lie so little apart that
\* half the gap, rounded, does not exceed blank_below + 1 slices
BedsOverlap ==
    \A i, j \in DOMAIN given.zs :
        (OffsetOf(i) < OffsetOf(j) /\ ~\E k \in DOMAIN given.zs :
                                          OffsetOf(i) < OffsetOf(k) /\ OffsetOf(k) < OffsetOf(j))
            => RoundHalves((given.blank_above - 1) - (OffsetOf(j) - OffsetOf(i))
                              - (given.blank_below + 1)) >= -(given.blank_below + 1)

\* what holds: the claim for beds that are not further apart than that
C29_HoldsForOverlappingBeds ==
    BedsOverlap => C29_EverySliceFromOneBed

\* two beds without overlap: the upper bed is left with no weight at all
C29_UpperBedDropped ==
    /\ returned.stage = "weights"
    /\ Len(given.zs) = 2
    /\ \E j \in DOMAIN given.zs :
          /\ returned.zs[j] > 0
          /\ \A s \in DOMAIN returned.stitching_weights[j] :
                 returned.stitching_weights[j][s] = 0

\* three overlapping beds given out of order: the switch-over is at the
\* midpoint of each overlap
C29_StitchedAtMidpoint ==
    /\ returned.stage = "weights"
    /\ Len(given.zs) = 3
    /\ BedsOverlap
    /\ returned.zs = <<2, 0, 4>>
    /\ given.original_z_height = MaxHeight
    /\ C29_EverySliceFromOneBed

====
